---- MODULE Spec2Model ----
(***************************************************************************)
(* Riegeli chunk encoding core: the Object lifecycle (base/object.cc), the *)
(* SimpleEncoder (chunk_encoding/simple_encoder.cc, chunk_encoder.h) and   *)
(* the record cursor of ChunkDecoder (chunk_encoding/chunk_decoder.h).     *)
(***************************************************************************)
EXTENDS Integers, Sequences, FiniteSets, TLC

(***************************************************************************)
(* Bounds of the model.                                                    *)
(***************************************************************************)
\* Largest number of records one encoder accepts between two Reset() calls.
MaxRecords == 2
\* Length of the one long record; above 127 its size takes a two-byte varint.
LongLen == 130

(***************************************************************************)
(* Program constants.                                                      *)
(***************************************************************************)
\* std::numeric_limits<uint64_t>::max().  The model's integers are 32 bits
\* wide: the largest of them stands for 2^64 - 1.
kMaxUint64 == 2147483647
\* std::numeric_limits<int>::max(), scaled alike: 2^15 - 1 stands for 2^31 - 1.
kMaxInt == 32767

\* CompressionType, by the byte written to the chunk.
kNone == 0
kBrotli == 1
kZstd == 2
CompressionTypes == {kNone, kBrotli, kZstd}

(***************************************************************************)
(* Object: the atomic status word.  kHealthy and kClosedSuccessfully are   *)
(* the two sentinels, any other value points to a FailedStatus record.     *)
(***************************************************************************)
kHealthy == [tag |-> "kHealthy", message |-> "", closed |-> FALSE]
kClosedSuccessfully == [tag |-> "kClosedSuccessfully", message |-> "", closed |-> TRUE]
FailedStatus(message) == [tag |-> "FailedStatus", message |-> message, closed |-> FALSE]

healthy(status) == status.tag = "kHealthy"

closed(status) ==
    \/ status.tag = "kClosedSuccessfully"
    \/ status.tag = "FailedStatus" /\ status.closed

MarkHealthy(status) == kHealthy

\* Object::Message()
Message(status) ==
    CASE status.tag = "kHealthy" -> "Healthy"
      [] status.tag = "kClosedSuccessfully" -> "Closed"
      [] OTHER -> status.message

\* A seeded fault: Fail() whose new status replaces an earlier failure.
Fail_LastWins(status, message) == FailedStatus(message)

\* Object::Fail(string_view): compare_exchange_strong(kHealthy, new_status);
\* when status_ was already set, new_status loses.
Fail(status, message) ==
    IF status = kHealthy THEN FailedStatus(message) ELSE status

\* A seeded fault: Fail(message, src) that leaves out what src reports.
FailWithSrc_DropsSrc(status, message, src) == Fail(status, message)

\* Object::Fail(string_view, const Object& src)
FailWithSrc(status, message, src) ==
    Fail(status, IF healthy(src) THEN message ELSE message \o ": " \o Message(src))

\* A seeded fault: Fail(src) with a message of its own.
FailFrom_OwnMessage(status, src) == Fail(status, "Object failed")

\* Object::Fail(const Object& src); precondition: !src.healthy()
FailFrom(status, src) == Fail(status, Message(src))

\* A seeded fault: Close() calls Done() on a healthy object only.
CloseCallsDone_HealthyOnly(status_before) == status_before.tag = "kHealthy"

\* Object::Close(), first switch: TRUE when Close() goes on to call Done().
CloseCallsDone(status_before) ==
    CASE status_before.tag = "kHealthy" -> TRUE
      [] status_before.tag = "kClosedSuccessfully" -> FALSE
      [] OTHER -> ~status_before.closed

\* A seeded fault: Close() that drops the failure record of a failed object
\* and stores kHealthy.
CloseStatus_DropsFailure(status_after) ==
    IF status_after.tag = "FailedStatus" THEN kHealthy ELSE kClosedSuccessfully

\* Object::Close(), second switch: the status stored after Done() returned
\* with status_after.
CloseStatus(status_after) ==
    CASE status_after.tag = "kHealthy" -> kClosedSuccessfully
      [] status_after.tag = "kClosedSuccessfully" -> status_after
      [] OTHER -> [status_after EXCEPT !.closed = TRUE]

\* A seeded fault: a repeated Close() of a failed object reports success.
CloseReturn_RepeatTrue(status_before, status_after) ==
    IF CloseCallsDone(status_before) THEN status_after.tag = "kHealthy" ELSE TRUE

\* A seeded fault: Close() of a healthy object reports success whatever
\* Done() did.
CloseReturn_DoneIgnored(status_before, status_after) ==
    CASE status_before.tag = "FailedStatus" -> FALSE
      [] OTHER -> TRUE

\* Object::Close(), the value returned; status_after is read only when Done()
\* was called.
CloseReturn(status_before, status_after) ==
    CASE status_before.tag = "FailedStatus" /\ status_before.closed -> FALSE
      [] status_before.tag = "kClosedSuccessfully" -> TRUE
      [] OTHER -> status_after.tag = "kHealthy"

(***************************************************************************)
(* Bytes, varints and writers.                                             *)
(***************************************************************************)
RECURSIVE Varint64(_)
\* WriteVarint64: little-endian base 128, the high bit marks a continuation.
Varint64(n) ==
    IF n < 128 THEN <<n>> ELSE <<(n % 128) + 128>> \o Varint64(n \div 128)

\* A Writer (ChainWriter, the compressors' writers, dest): an Object and the
\* bytes written so far; pos() is their number.
NewWriter == [status |-> kHealthy, data |-> <<>>]
pos(writer) == Len(writer.data)

\* Writer::Write(src).  ok is FALSE when the sink reports an error during this
\* write; a writer that is not healthy accepts nothing.
Write(writer, src, ok, message) ==
    IF healthy(writer.status) /\ ok
    THEN [w |-> [writer EXCEPT !.data = @ \o src], ret |-> TRUE]
    ELSE [w |-> [writer EXCEPT !.status = Fail(@, message)], ret |-> FALSE]

\* Writer::Close(): Object::Close() with a Done() that flushes nothing more.
WriterClose(writer) ==
    [w |-> IF CloseCallsDone(writer.status)
           THEN [writer EXCEPT !.status = CloseStatus(@)]
           ELSE writer,
     ret |-> CloseReturn(writer.status, writer.status)]

(***************************************************************************)
(* Compressor: a writer of uncompressed bytes and the compressed stream it *)
(* hands over.  kNone passes the bytes through with no framing; the two    *)
(* real algorithms are stood in for by run-length codes behind the varint  *)
(* of the uncompressed size.                                               *)
(***************************************************************************)
\* Length of the run of equal bytes at the head of data.
RunLen(data) ==
    LET differ == {i \in 1..Len(data) : data[i] # data[1]}
    IN IF differ = {} THEN Len(data)
       ELSE (CHOOSE i \in differ : \A j \in differ : i <= j) - 1

RunCount(data) == IF RunLen(data) > 255 THEN 255 ELSE RunLen(data)

RECURSIVE Rle(_, _)
\* Run-length code: <<count, byte>> pairs for kBrotli, <<byte, count>> for kZstd.
Rle(type, data) ==
    IF data = <<>> THEN <<>>
    ELSE LET k == RunCount(data)
         IN (IF type = kBrotli THEN <<k, data[1]>> ELSE <<data[1], k>>)
            \o Rle(type, SubSeq(data, k + 1, Len(data)))

Compress(type, data) ==
    IF type = kNone THEN data ELSE Varint64(Len(data)) \o Rle(type, data)

NewCompressor == [status |-> kHealthy, writer |-> NewWriter]

\* Compressor::Reset()
CompressorReset(c) == NewCompressor

\* Compressor::Close(): Object::Close() with Done() closing the writer and
\* releasing the buffered bytes.
CompressorClose(c) ==
    LET wc == WriterClose(c.writer)
        after == IF wc.ret THEN c.status ELSE FailFrom(c.status, wc.w.status)
    IN IF CloseCallsDone(c.status)
       THEN [c |-> [status |-> CloseStatus(after),
                    writer |-> [wc.w EXCEPT !.data = <<>>]],
             ret |-> CloseReturn(c.status, after)]
       ELSE [c |-> c, ret |-> CloseReturn(c.status, c.status)]

\* Compressor::EncodeAndClose(dest): closes the writer, writes the compressed
\* stream to dest and closes the compressor.  ok: dest accepts the write.
CompressorEncodeAndClose(c, type, dest, ok, message) ==
    LET wc == WriterClose(c.writer)
        dw == Write(dest, Compress(type, c.writer.data), ok, message)
        cl == CompressorClose([c EXCEPT !.writer = wc.w])
    IN IF ~healthy(c.status) THEN [c |-> c, dest |-> dest, ret |-> FALSE]
       ELSE IF ~wc.ret
       THEN [c |-> [status |-> FailFrom(c.status, wc.w.status), writer |-> wc.w],
             dest |-> dest, ret |-> FALSE]
       ELSE IF ~dw.ret
       THEN [c |-> [status |-> FailFrom(c.status, dw.w.status), writer |-> wc.w],
             dest |-> dw.w, ret |-> FALSE]
       ELSE [c |-> cl.c, dest |-> dw.w, ret |-> cl.ret]

(***************************************************************************)
(* Inputs.                                                                 *)
(***************************************************************************)
LongRecord == [i \in 1..LongLen |-> 0]
RecordSet == {<<>>, <<8, 1>>, LongRecord}

\* MessageLite inputs: what IsInitialized(), ByteSizeLong() and the
\* serialization give.  The last one stands for a message above 2GB.
MessageSet ==
    {[IsInitialized |-> TRUE, ByteSizeLong |-> 2, bytes |-> <<8, 1>>],
     [IsInitialized |-> FALSE, ByteSizeLong |-> 2, bytes |-> <<8, 1>>],
     [IsInitialized |-> TRUE, ByteSizeLong |-> kMaxInt + 1, bytes |-> <<>>]}

RECURSIVE Concat(_)
\* The concatenated record values of a sequence of records.
Concat(records) ==
    IF records = <<>> THEN <<>> ELSE Head(records) \o Concat(Tail(records))

\* The sorted record end positions of a sequence of records.
Limits(records) ==
    [i \in 1..Len(records) |-> Len(Concat(SubSeq(records, 1, i)))]

RECURSIVE SeqsUpTo(_, _)
SeqsUpTo(S, n) ==
    IF n = 0 THEN {<<>>}
    ELSE SeqsUpTo(S, n - 1)
         \cup {Append(s, x) : s \in {q \in SeqsUpTo(S, n - 1) : Len(q) = n - 1}, x \in S}

\* The caller's uint64_t written through an output pointer.
Unset == [set |-> FALSE, value |-> 0]
Stored(value) == [set |-> TRUE, value |-> value]

(***************************************************************************)
(* SimpleEncoder.  An encoder and the arguments of the call in progress    *)
(* are a record s:                                                         *)
(*   status_, num_records_, compression_type_, sizes_compressor_,          *)
(*   values_compressor_   the encoder's fields                             *)
(*   dest, num_records, decoded_data_size   the arguments of EncodeAndClose*)
(*   ret                  the value returned                               *)
(***************************************************************************)
Return(s, ret) == [s EXCEPT !.ret = ret]

\* return Fail(message);
ReturnFail(s, message) == [s EXCEPT !.status_ = Fail(@, message), !.ret = FALSE]

\* return Fail(src);
ReturnFailFrom(s, src) == [s EXCEPT !.status_ = FailFrom(@, src), !.ret = FALSE]

\* A seeded fault: Done() keeps the count.
ChunkEncoderDone_KeepsCount(s) == s

\* ChunkEncoder::Done()
ChunkEncoderDone(s) == [s EXCEPT !.num_records_ = 0]

\* SimpleEncoder::Done()
Done(s) ==
    LET sc == CompressorClose(s.sizes_compressor_)
        s1 == [s EXCEPT !.sizes_compressor_ = sc.c,
                        !.status_ = IF sc.ret THEN @ ELSE FailFrom(@, sc.c.status)]
        vc == CompressorClose(s1.values_compressor_)
        s2 == [s1 EXCEPT !.values_compressor_ = vc.c,
                         !.status_ = IF vc.ret THEN @ ELSE FailFrom(@, vc.c.status)]
    IN ChunkEncoderDone(s2)

\* Object::Close() of the encoder, with the virtual Done() above.
Close(s) ==
    IF CloseCallsDone(s.status_)
    THEN LET d == Done(s)
         IN [d EXCEPT !.status_ = CloseStatus(d.status_),
                      !.ret = CloseReturn(s.status_, d.status_)]
    ELSE Return(s, CloseReturn(s.status_, s.status_))

\* ChunkEncoder::Reset()
ChunkEncoderReset(s) ==
    [s EXCEPT !.status_ = MarkHealthy(@), !.num_records_ = 0]

\* A seeded fault: Reset() that leaves the values of the chunk before.
Reset_KeepsValues(s) ==
    LET s1 == ChunkEncoderReset(s)
    IN [s1 EXCEPT !.sizes_compressor_ = CompressorReset(@),
                  !.values_compressor_.status = kHealthy,
                  !.values_compressor_.writer.status = kHealthy,
                  !.ret = TRUE]

\* SimpleEncoder::Reset()
Reset(s) ==
    LET s1 == ChunkEncoderReset(s)
    IN [s1 EXCEPT !.sizes_compressor_ = CompressorReset(@),
                  !.values_compressor_ = CompressorReset(@),
                  !.ret = TRUE]

\* A seeded fault: the record counted before the encoder is found not healthy.
AddRecordImpl_CountsFirst(s, record, fault) ==
    LET sw == Write(s.sizes_compressor_.writer, Varint64(Len(record)),
                    fault # "sizes", "sizes writer failed")
        vw == Write(s.values_compressor_.writer, record,
                    fault # "values", "values writer failed")
        s1 == [s EXCEPT !.num_records_ = @ + 1]
        s2 == [s1 EXCEPT !.sizes_compressor_.writer = sw.w]
        s3 == [s2 EXCEPT !.values_compressor_.writer = vw.w]
    IN IF ~healthy(s.status_) THEN Return(s1, FALSE)
       ELSE IF ~sw.ret THEN ReturnFailFrom(s2, sw.w.status)
       ELSE IF ~vw.ret THEN ReturnFailFrom(s3, vw.w.status)
       ELSE Return(s3, TRUE)

\* SimpleEncoder::AddRecordImpl(record), behind the string_view, string and
\* Chain overloads of AddRecord.  fault: the write that the compressor's writer
\* refuses, "sizes", "values" or "none".
AddRecordImpl(s, record, fault) ==
    LET sw == Write(s.sizes_compressor_.writer, Varint64(Len(record)),
                    fault # "sizes", "sizes writer failed")
        vw == Write(s.values_compressor_.writer, record,
                    fault # "values", "values writer failed")
        s1 == [s EXCEPT !.num_records_ = @ + 1]
        s2 == [s1 EXCEPT !.sizes_compressor_.writer = sw.w]
        s3 == [s2 EXCEPT !.values_compressor_.writer = vw.w]
    IN IF ~healthy(s.status_) THEN Return(s, FALSE)
       ELSE IF s.num_records_ = kMaxUint64 THEN ReturnFail(s, "Too many records")
       ELSE IF ~sw.ret THEN ReturnFailFrom(s2, sw.w.status)
       ELSE IF ~vw.ret THEN ReturnFailFrom(s3, vw.w.status)
       ELSE Return(s3, TRUE)

\* SimpleEncoder::AddRecord(const MessageLite& record)
AddRecordMessage(s, record, fault) ==
    LET sw == Write(s.sizes_compressor_.writer, Varint64(record.ByteSizeLong),
                    fault # "sizes", "sizes writer failed")
        vw == Write(s.values_compressor_.writer, record.bytes,
                    fault # "values", "values writer failed")
        s1 == [s EXCEPT !.num_records_ = @ + 1]
        s2 == [s1 EXCEPT !.sizes_compressor_.writer = sw.w]
        s3 == [s2 EXCEPT !.values_compressor_.writer = vw.w]
    IN IF ~healthy(s.status_) THEN Return(s, FALSE)
       ELSE IF ~record.IsInitialized
       THEN ReturnFail(s, "Failed to serialize message of type M because it is missing required fields: f")
       ELSE IF record.ByteSizeLong > kMaxInt
       THEN ReturnFail(s, "Failed to serialize message of type M because it exceeds maximum protobuf size of 2GB: " \o ToString(record.ByteSizeLong))
       ELSE IF s.num_records_ = kMaxUint64 THEN ReturnFail(s, "Too many records")
       ELSE IF ~sw.ret THEN ReturnFailFrom(s2, sw.w.status)
       ELSE IF ~vw.ret THEN ReturnFailFrom(s3, vw.w.status)
       ELSE Return(s3, TRUE)

RECURSIVE WriteSizes_Limits(_, _, _, _)
\* A seeded fault: the end position of each record written as its size.
WriteSizes_Limits(writer, limits, start, accepts) ==
    IF limits = <<>> THEN [w |-> writer, ret |-> TRUE]
    ELSE LET sw == Write(writer, Varint64(Head(limits)), accepts > 0,
                         "sizes writer failed")
         IN IF ~sw.ret THEN sw
            ELSE WriteSizes_Limits(sw.w, Tail(limits), Head(limits), accepts - 1)

RECURSIVE WriteSizes(_, _, _, _)
\* The loop of AddRecords over limits: one WriteVarint64 per record, stopping
\* at the first that fails.  accepts: the number of writes the sizes writer
\* accepts from here on.
WriteSizes(writer, limits, start, accepts) ==
    IF limits = <<>> THEN [w |-> writer, ret |-> TRUE]
    ELSE LET sw == Write(writer, Varint64(Head(limits) - start), accepts > 0,
                         "sizes writer failed")
         IN IF ~sw.ret THEN sw
            ELSE WriteSizes(sw.w, Tail(limits), Head(limits), accepts - 1)

\* A seeded fault: a batch counted as one record.
AddRecords_CountsOne(s, records, limits, sizesAccepts, okValues) ==
    LET s1 == [s EXCEPT !.num_records_ = @ + 1]
        sw == WriteSizes(s.sizes_compressor_.writer, limits, 0, sizesAccepts)
        s2 == [s1 EXCEPT !.sizes_compressor_.writer = sw.w]
        vw == Write(s2.values_compressor_.writer, records, okValues,
                    "values writer failed")
        s3 == [s2 EXCEPT !.values_compressor_.writer = vw.w]
    IN IF ~healthy(s.status_) THEN Return(s, FALSE)
       ELSE IF Len(limits) > kMaxUint64 - s.num_records_
       THEN ReturnFail(s, "Too many records")
       ELSE IF ~sw.ret THEN ReturnFailFrom(s2, sw.w.status)
       ELSE IF ~vw.ret THEN ReturnFailFrom(s3, vw.w.status)
       ELSE Return(s3, TRUE)

\* A seeded fault: the batch that fills the counter exactly is refused.
AddRecords_OffByOne(s, records, limits, sizesAccepts, okValues) ==
    LET s1 == [s EXCEPT !.num_records_ = @ + Len(limits)]
        sw == WriteSizes(s.sizes_compressor_.writer, limits, 0, sizesAccepts)
        s2 == [s1 EXCEPT !.sizes_compressor_.writer = sw.w]
        vw == Write(s2.values_compressor_.writer, records, okValues,
                    "values writer failed")
        s3 == [s2 EXCEPT !.values_compressor_.writer = vw.w]
    IN IF ~healthy(s.status_) THEN Return(s, FALSE)
       ELSE IF Len(limits) >= kMaxUint64 - s.num_records_
       THEN ReturnFail(s, "Too many records")
       ELSE IF ~sw.ret THEN ReturnFailFrom(s2, sw.w.status)
       ELSE IF ~vw.ret THEN ReturnFailFrom(s3, vw.w.status)
       ELSE Return(s3, TRUE)

\* SimpleEncoder::AddRecords(records, limits); precondition: limits sorted,
\* (limits.empty() ? 0 : limits.back()) == records.size().
\* sizesAccepts: the number of writes the sizes writer accepts.
AddRecords(s, records, limits, sizesAccepts, okValues) ==
    LET s1 == [s EXCEPT !.num_records_ = @ + Len(limits)]
        sw == WriteSizes(s.sizes_compressor_.writer, limits, 0, sizesAccepts)
        s2 == [s1 EXCEPT !.sizes_compressor_.writer = sw.w]
        vw == Write(s2.values_compressor_.writer, records, okValues,
                    "values writer failed")
        s3 == [s2 EXCEPT !.values_compressor_.writer = vw.w]
    IN IF ~healthy(s.status_) THEN Return(s, FALSE)
       ELSE IF Len(limits) > kMaxUint64 - s.num_records_
       THEN ReturnFail(s, "Too many records")
       ELSE IF ~sw.ret THEN ReturnFailFrom(s2, sw.w.status)
       ELSE IF ~vw.ret THEN ReturnFailFrom(s3, vw.w.status)
       ELSE Return(s3, TRUE)

\* A seeded fault: the decoded size taken from the sizes stream.
StoreCounts_SizesPos(s) ==
    [s EXCEPT !.num_records = Stored(s.num_records_),
              !.decoded_data_size = Stored(pos(s.sizes_compressor_.writer))]

\* EncodeAndClose: *num_records = num_records_;
\*                 *decoded_data_size = values_compressor_.writer()->pos();
StoreCounts(s) ==
    [s EXCEPT !.num_records = Stored(s.num_records_),
              !.decoded_data_size = Stored(pos(s.values_compressor_.writer))]

\* A seeded fault: the compressed sizes written without their length.
WriteCompressedSizes_NoLength(dest, compressed_sizes, accepts) ==
    Write(dest, compressed_sizes, accepts >= 3, "dest failed")

\* EncodeAndClose: !WriteVarint64(dest, compressed_sizes.size()) ||
\*                 !dest->Write(std::move(compressed_sizes))
WriteCompressedSizes(dest, compressed_sizes, accepts) ==
    LET w2 == Write(dest, Varint64(Len(compressed_sizes)), accepts >= 2, "dest failed")
    IN IF ~w2.ret THEN w2
       ELSE Write(w2.w, compressed_sizes, accepts >= 3, "dest failed")

\* SimpleEncoder::EncodeAndClose(dest, num_records, decoded_data_size).
\* accepts: the number of Write calls dest accepts before it fails;
\* okChain: the ChainWriter of compressed_sizes accepts the write.
EncodeAndClose(s, accepts, okChain) ==
    LET s1 == StoreCounts(s)
        \* WriteByte(dest, compression_type_)
        w1 == Write(s1.dest, <<s.compression_type_>>, accepts >= 1, "dest failed")
        s2 == [s1 EXCEPT !.dest = w1.w]
        \* sizes_compressor_.EncodeAndClose(&compressed_sizes_writer)
        se == CompressorEncodeAndClose(s2.sizes_compressor_, s.compression_type_,
                                       NewWriter, okChain, "chain writer failed")
        s3 == [s2 EXCEPT !.sizes_compressor_ = se.c]
        compressed_sizes_writer == WriterClose(se.dest)
        compressed_sizes == se.dest.data
        w3 == WriteCompressedSizes(s3.dest, compressed_sizes, accepts)
        s4 == [s3 EXCEPT !.dest = w3.w]
        \* values_compressor_.EncodeAndClose(dest)
        ve == CompressorEncodeAndClose(s4.values_compressor_, s.compression_type_,
                                       s4.dest, accepts >= 4, "dest failed")
        s5 == [s4 EXCEPT !.values_compressor_ = ve.c, !.dest = ve.dest]
    IN IF ~healthy(s.status_) THEN Return(s, FALSE)
       ELSE IF pos(s.values_compressor_.writer) > kMaxUint64
       THEN ReturnFail(s, "Decoded data size too large")
       ELSE IF ~w1.ret THEN ReturnFailFrom(s2, s2.dest.status)
       ELSE IF ~se.ret THEN ReturnFailFrom(s3, s3.sizes_compressor_.status)
       ELSE IF ~compressed_sizes_writer.ret
       THEN ReturnFailFrom(s3, compressed_sizes_writer.w.status)
       ELSE IF ~w3.ret THEN ReturnFailFrom(s4, s4.dest.status)
       ELSE IF ~ve.ret THEN ReturnFailFrom(s5, s5.values_compressor_.status)
       ELSE Close(s5)

(***************************************************************************)
(* The other objects, as constructed.                                      *)
(***************************************************************************)
\* A ChunkDecoder is a record d: status_, limits_, values (the bytes behind
\* values_reader_), pos (values_reader_.pos()) and index_.
EmptyDecoder(status) ==
    [pos |-> 0, status_ |-> status, limits_ |-> <<>>, values |-> <<>>, index_ |-> 0]

\* ChunkDecoder(options), and the decoder after Reset(): an empty chunk.
NewDecoder == EmptyDecoder(kHealthy)

\* The null pointer; a buffer lies at addresses above it.
nullptr == 0

\* A Writer or BackwardWriter is a record w: status_, the buffer pointers
\* start_, cursor_ and limit_, start_pos_, buffer (the bytes written to the
\* buffer, between start_ and cursor_, in the order of their addresses) and
\* dest (the bytes pushed to the destination, in the order they have there).
NewStream ==
    [dest |-> <<>>, status_ |-> kHealthy, start_ |-> nullptr, cursor_ |-> nullptr,
     limit_ |-> nullptr, start_pos_ |-> 0, buffer |-> <<>>]

(***************************************************************************)
(* State: two encoders constructed with the same options, each with the    *)
(* destination and output variables of its caller; a ChunkDecoder, a       *)
(* Writer and a BackwardWriter.                                            *)
(***************************************************************************)
Encoders == {1, 2}

VARIABLES
    decoder,              \* the ChunkDecoder's status_, limits_, values_reader_, index_
    skip_errors_,         \* ChunkDecoder::skip_errors_
    skipped_records_,     \* ChunkDecoder::skipped_records_
    decoder_last,         \* the last call on the decoder and what it returned
    writer,               \* the Writer
    writer_last,          \* the last call on the Writer and what it returned
    backward_writer,      \* the BackwardWriter
    backward_writer_last  \* the last call on the BackwardWriter and what it returned

decoderVars == <<decoder, skip_errors_, skipped_records_, decoder_last>>
writerVars == <<writer, writer_last>>
backwardWriterVars == <<backward_writer, backward_writer_last>>

\* ChunkDecoder(options)
DecoderInit(skip_errors) ==
    /\ decoder = NewDecoder
    /\ skip_errors_ \in skip_errors
    /\ skipped_records_ = 0
    /\ decoder_last = [op |-> "ChunkDecoder", arg |-> 0, ret |-> TRUE, record |-> <<>>]

\* A Writer and a BackwardWriter whose buffers are not allocated yet.
WritersInit ==
    /\ writer = NewStream
    /\ writer_last = [op |-> "Writer", arg |-> <<>>, ret |-> TRUE]
    /\ backward_writer = NewStream
    /\ backward_writer_last = [op |-> "BackwardWriter", arg |-> <<>>, ret |-> TRUE]

\* TransposeDecoder(): closed, nothing parsed.  nodes, node, buffers,
\* submessage_stack, skipped_submessage_level and limits are those of the
\* Context of a Reset() call, dest and the arguments are its caller's; call
\* tells where the call is: "Decode" inside the decoding loop, "returned"
\* after it returned ret; touched are the buffers read so far.
NewTransposeDecoder ==
    [status_ |-> kClosedSuccessfully, call |-> "none", ret |-> TRUE,
     nodes |-> <<>>, node |-> nullptr, buffers |-> [id \in {} |-> <<>>],
     submessage_stack |-> <<>>, skipped_submessage_level |-> 0,
     dest |-> NewStream, limits |-> <<>>, num_records |-> 0,
     decoded_data_size |-> 0, field_filter |-> {<<>>}, records_decoded |-> 0,
     touched |-> {}]

\* The compression levels and window logs of BrotliWriter::Options and
\* ZstdWriter::Options (of a 64-bit build), as compressor_options.h gives
\* them.
kMinBrotli == 0
kMaxBrotli == 11
kDefaultBrotli == 9
kMinZstd == 1
kMaxZstd == 22
kDefaultZstd == 9
kMinBrotliWindowLog == 10
kMaxBrotliWindowLog == 30
kMinZstdWindowLog == 10
kMaxZstdWindowLog == 31
kDefaultWindowLog == -1

\* CompressorOptions()
NewOptions ==
    [compression_type_ |-> kBrotli, compression_level_ |-> kDefaultBrotli,
     window_log_ |-> kDefaultWindowLog]

\* The owning thread of an Object makes at most this many calls.
MaxCalls == 3

\* Where a FailedStatus can lie.
Addresses == 1..MaxCalls

\* The status word of an Object: kHealthy, kClosedSuccessfully, or the
\* address of a FailedStatus.
Word(tag, address) == [tag |-> tag, address |-> address]

\* An Object as its threads share it: the atomic status_ and the memory the
\* FailedStatus records lie in, each free, allocated or deleted; a record
\* holds no message until its constructor has copied one.
NewObject ==
    [status_ |-> Word("kHealthy", nullptr),
     heap |-> [a \in Addresses |-> [state |-> "free", message |-> "", closed |-> FALSE]]]

\* The owning thread: where it is (pc; step inside Fail()), the message and
\* the new_status of the Fail() it runs, whether Done() called that Fail(),
\* and a record of its calls: their number, the Close() calls, the Done()
\* calls, the status the last Close() found, the message Done() raised in
\* it, what it returned, and the message of the Fail() that won.
NewOwner ==
    [pc |-> "idle", step |-> 0, message |-> "", new_status |-> nullptr,
     in_done |-> FALSE, calls |-> 0, closes |-> 0, done_calls |-> 0,
     before |-> kHealthy, raised |-> "", ret |-> TRUE, won |-> ""]

\* The observer thread: where it is, the status_ its Message() loaded, and
\* what its last Message() and healthy() returned (before the first, what
\* they return on a new Object).
NewObserver ==
    [pc |-> "idle", status |-> Word("kHealthy", nullptr), message |-> "Healthy",
     healthy |-> TRUE]

VARIABLES
    transpose,            \* the TransposeDecoder and the Reset() call on it
    transposed,           \* the records of the chunk given to that call, if any
    options,              \* a CompressorOptions
    object,               \* an Object shared by two threads
    owner,                \* the thread that owns it
    observer,             \* the thread that observes it
    objects,              \* Object::status_ of two Objects, each a src for the other
    objects_last,         \* the last call on one of them and the value it returned
    reset_from,           \* what the last Reset() of encoder 1 found, if it is recorded
    write_slow            \* the WriteSlow() call in progress on the Writer, pass by pass

threadVars == <<object, owner, observer>>
objectsVars == <<objects, objects_last>>
restVars == <<transpose, transposed, options, threadVars, objectsVars, reset_from,
              write_slow>>

RestInit ==
    /\ transpose = NewTransposeDecoder
    /\ transposed = [records |-> <<>>, encoded |-> FALSE]
    /\ options = NewOptions
    /\ object = NewObject
    /\ owner = NewOwner
    /\ observer = NewObserver
    /\ objects = [o \in 1..2 |-> kHealthy]
    /\ objects_last = [op |-> "Object", object |-> 1, message |-> "", src |-> kHealthy,
                       before |-> kHealthy, ret |-> TRUE]
    /\ reset_from = "no Reset"
    /\ write_slow = [pc |-> "idle", src |-> <<>>, size |-> 0, pushes |-> 0, ret |-> TRUE]

VARIABLES
    status_,              \* Object::status_ of each encoder
    num_records_,         \* ChunkEncoder::num_records_
    compression_type_,    \* SimpleEncoder::compression_type_
    sizes_compressor_,    \* SimpleEncoder::sizes_compressor_
    values_compressor_,   \* SimpleEncoder::values_compressor_
    dest,                 \* the Writer passed to EncodeAndClose, after the call
    num_records,          \* the caller's *num_records
    decoded_data_size,    \* the caller's *decoded_data_size
    dest_before,          \* that Writer as it was when the call began
    added,                \* records added with success since construction or Reset
    last,                 \* the last call on the encoder and the value it returned
    closes                \* Close() calls in a row, counted up to 2

encoderVars == <<status_, num_records_, compression_type_, sizes_compressor_,
                 values_compressor_, dest, num_records, decoded_data_size,
                 dest_before, added, last, closes>>

vars == <<encoderVars, decoderVars, writerVars, backwardWriterVars, restVars>>

\* The encoder's fields and its caller's arguments, as the operators take them.
Self(e) ==
    [status_ |-> status_[e], num_records_ |-> num_records_[e],
     compression_type_ |-> compression_type_[e],
     sizes_compressor_ |-> sizes_compressor_[e],
     values_compressor_ |-> values_compressor_[e],
     dest |-> dest[e], num_records |-> num_records[e],
     decoded_data_size |-> decoded_data_size[e], ret |-> TRUE]

\* The call op on encoder e, with the message arg when it is Fail(arg), ends
\* in s.
Committed(e, s, op, arg) ==
    /\ status_' = [status_ EXCEPT ![e] = s.status_]
    /\ num_records_' = [num_records_ EXCEPT ![e] = s.num_records_]
    /\ sizes_compressor_' = [sizes_compressor_ EXCEPT ![e] = s.sizes_compressor_]
    /\ values_compressor_' = [values_compressor_ EXCEPT ![e] = s.values_compressor_]
    /\ dest' = [dest EXCEPT ![e] = s.dest]
    /\ num_records' = [num_records EXCEPT ![e] = s.num_records]
    /\ decoded_data_size' = [decoded_data_size EXCEPT ![e] = s.decoded_data_size]
    /\ last' = [last EXCEPT ![e] = [op |-> op, arg |-> arg, ret |-> s.ret]]
    /\ closes' = [closes EXCEPT ![e] = IF op = "Close" THEN (IF @ < 2 THEN @ + 1 ELSE @) ELSE 0]
    /\ UNCHANGED <<compression_type_, decoderVars, writerVars, backwardWriterVars>>
    /\ UNCHANGED <<transpose, transposed, options, threadVars, objectsVars, write_slow>>

Commit(e, s, op, arg) == Committed(e, s, op, arg) /\ UNCHANGED reset_from

\* SimpleEncoder(options, size_hint): both encoders get the same options, of
\* a compression type in types, and encoder 1 has counted records_before
\* records.
EncodersInit(types, records_before) ==
    /\ status_ = [e \in Encoders |-> kHealthy]
    /\ num_records_ \in {[e \in Encoders |-> IF e = 1 THEN n ELSE 0] : n \in records_before}
    /\ \E type \in types : compression_type_ = [e \in Encoders |-> type]
    /\ sizes_compressor_ = [e \in Encoders |-> NewCompressor]
    /\ values_compressor_ = [e \in Encoders |-> NewCompressor]
    /\ dest = [e \in Encoders |-> NewWriter]
    /\ dest_before = [e \in Encoders |-> NewWriter]
    /\ num_records = [e \in Encoders |-> Unset]
    /\ decoded_data_size = [e \in Encoders |-> Unset]
    /\ added = [e \in Encoders |-> <<>>]
    /\ last = [e \in Encoders |-> [op |-> "SimpleEncoder", arg |-> "", ret |-> TRUE]]
    /\ closes = [e \in Encoders |-> 0]

Init ==
    EncodersInit(CompressionTypes, {0}) /\ DecoderInit({FALSE}) /\ WritersInit /\ RestInit

\* The writers a caller passes as dest: new, holding a chunk header, or failed.
DestInputs ==
    {NewWriter,
     [status |-> kHealthy, data |-> <<255>>],
     [status |-> FailedStatus("dest failed earlier"), data |-> <<255>>]}

Faults == {"none", "sizes", "values"}

\* A chunk is offered at most MaxRecords records.
Room(e, n) == Len(added[e]) + n <= MaxRecords

CallAddRecord(e, faults) ==
    \E record \in RecordSet, fault \in faults :
        /\ Room(e, 1)
        /\ LET s == AddRecordImpl(Self(e), record, fault)
           IN /\ Commit(e, s, "AddRecord", "")
              /\ added' = [added EXCEPT ![e] = IF s.ret THEN Append(@, record) ELSE @]
        /\ UNCHANGED dest_before

CallAddRecordMessage(e, faults) ==
    \E record \in MessageSet, fault \in faults :
        /\ Room(e, 1)
        /\ LET s == AddRecordMessage(Self(e), record, fault)
           IN /\ Commit(e, s, "AddRecord", "")
              /\ added' = [added EXCEPT ![e] = IF s.ret THEN Append(@, record.bytes) ELSE @]
        /\ UNCHANGED dest_before

CallAddRecords(e, faults) ==
    \E batch \in SeqsUpTo(RecordSet, MaxRecords) :
        \* the write that fails: none (0), one of the sizes, or the values
        \E failing \in IF faults = {"none"} THEN {0} ELSE 0..(Len(batch) + 1) :
            /\ Room(e, Len(batch))
            /\ LET s == AddRecords(Self(e), Concat(batch), Limits(batch),
                                   IF failing = 0 THEN Len(batch) ELSE failing - 1,
                                   failing <= Len(batch))
               IN /\ Commit(e, s, "AddRecords", "")
                  /\ added' = [added EXCEPT ![e] = IF s.ret THEN @ \o batch ELSE @]
            /\ UNCHANGED dest_before

CallEncodeAndClose(e) ==
    \E d \in DestInputs, accepts \in 0..4, okChain \in BOOLEAN :
        /\ Commit(e, EncodeAndClose([Self(e) EXCEPT !.dest = d], accepts, okChain),
                  "EncodeAndClose", "")
        /\ dest_before' = [dest_before EXCEPT ![e] = d]
        /\ UNCHANGED added

CallClose(e) ==
    /\ Commit(e, Close(Self(e)), "Close", "")
    /\ UNCHANGED <<dest_before, added>>

\* Reset() starts the next chunk: the caller takes a new destination and new
\* output variables for it.
CallReset(e) ==
    /\ Commit(e, [Reset(Self(e)) EXCEPT !.dest = NewWriter, !.num_records = Unset,
                                        !.decoded_data_size = Unset], "Reset", "")
    /\ added' = [added EXCEPT ![e] = <<>>]
    /\ dest_before' = [dest_before EXCEPT ![e] = NewWriter]

\* Object::Fail(message), from an operation of a subclass; precondition: !closed()
CallFail(e) ==
    \E message \in {"m1", "m2"} :
        /\ ~closed(status_[e])
        /\ Commit(e, ReturnFail(Self(e), message), "Fail", message)
        /\ UNCHANGED <<dest_before, added>>

Call(e) ==
    \/ CallAddRecord(e, Faults)
    \/ CallAddRecordMessage(e, Faults)
    \/ CallAddRecords(e, Faults)
    \/ CallEncodeAndClose(e)
    \/ CallClose(e)
    \/ CallReset(e)
    \/ CallFail(e)

\* One encoder in use.
Next == Call(1)

Spec == Init /\ [][Next]_vars

\* Two encoders fed by different calls, with compressors that accept every
\* write: encoder 1 gets its records one by one, encoder 2 in batches.  The
\* encoders share nothing, so encoder 2 is run after encoder 1 has written its
\* chunk, and each is left alone once EncodeAndClose has been called on it.
Open(e) == last[e].op # "EncodeAndClose"
Written(e) == last[e].op = "EncodeAndClose" /\ last[e].ret

NextPair ==
    \/ Open(1) /\ CallAddRecord(1, {"none"})
    \/ Open(1) /\ CallAddRecordMessage(1, {"none"})
    \/ Open(1) /\ CallEncodeAndClose(1)
    \/ Written(1) /\ Open(2) /\ CallAddRecords(2, {"none"})
    \/ Written(1) /\ Open(2) /\ CallEncodeAndClose(2)

SpecPair == Init /\ [][NextPair]_vars

\* One encoder that has counted all but a few of the records its counter can
\* hold, all of them added since construction; the bytes of those records are
\* left out of its streams, which no AddRecord or AddRecords call reads.
InitCounter ==
    /\ EncodersInit(CompressionTypes, {kMaxUint64 - c : c \in 0..MaxRecords})
    /\ DecoderInit({FALSE})
    /\ WritersInit
    /\ RestInit

NextCounter ==
    \/ CallAddRecord(1, Faults)
    \/ CallAddRecordMessage(1, Faults)
    \/ CallAddRecords(1, Faults)

SpecCounter == InitCounter /\ [][NextCounter]_vars

(***************************************************************************)
(* Decoding a simple chunk.                                                *)
(***************************************************************************)
RECURSIVE ReadVarint64(_, _)
\* ReadVarint64 at index i of bytes: the value and the index after it; ok is
\* FALSE when the bytes end inside the varint.
ReadVarint64(bytes, i) ==
    IF i > Len(bytes) THEN [ok |-> FALSE, value |-> 0, next |-> i]
    ELSE IF bytes[i] < 128 THEN [ok |-> TRUE, value |-> bytes[i], next |-> i + 1]
    ELSE LET rest == ReadVarint64(bytes, i + 1)
         IN [ok |-> rest.ok, value |-> (bytes[i] - 128) + 128 * rest.value,
             next |-> rest.next]

RECURSIVE Unrle(_, _)
\* The bytes a run-length code stands for.
Unrle(type, code) ==
    IF Len(code) < 2 THEN <<>>
    ELSE LET k == IF type = kBrotli THEN code[1] ELSE code[2]
             b == IF type = kBrotli THEN code[2] ELSE code[1]
         IN [i \in 1..k |-> b] \o Unrle(type, SubSeq(code, 3, Len(code)))

\* Decompressor: the inverse of Compress; ok is FALSE when the stream is
\* truncated or does not have the size it announces.
Decompress(type, compressed) ==
    IF type = kNone THEN [ok |-> TRUE, data |-> compressed]
    ELSE LET size == ReadVarint64(compressed, 1)
             data == Unrle(type, SubSeq(compressed, size.next, Len(compressed)))
         IN [ok |-> size.ok /\ Len(data) = size.value, data |-> data]

RECURSIVE ReadSizes(_, _, _)
\* The record end positions a sizes stream gives, read from index i on with
\* the end of the previous record at start.
ReadSizes(sizes, i, start) ==
    IF i > Len(sizes) THEN [ok |-> TRUE, limits |-> <<>>]
    ELSE LET size == ReadVarint64(sizes, i)
             rest == ReadSizes(sizes, size.next, start + size.value)
         IN [ok |-> size.ok /\ rest.ok,
             limits |-> <<start + size.value>> \o rest.limits]

\* ChunkDecoder::Reset(chunk) for a simple chunk of num_records records:
\* compression type, varint length of the compressed sizes, the compressed
\* sizes, the compressed values.
DecoderReset(chunk, chunk_num_records) ==
    LET length == ReadVarint64(chunk, 2)
        sizes == Decompress(chunk[1], SubSeq(chunk, length.next,
                                             length.next + length.value - 1))
        values == Decompress(chunk[1], SubSeq(chunk, length.next + length.value,
                                              Len(chunk)))
        limits == ReadSizes(sizes.data, 1, 0)
        \* the failure found, "" if none
        message ==
            IF chunk = <<>> \/ chunk[1] \notin CompressionTypes
            THEN "Unknown compression type"
            ELSE IF ~length.ok \/ length.next + length.value - 1 > Len(chunk)
            THEN "Reading size of sizes failed"
            ELSE IF ~sizes.ok \/ ~values.ok \/ ~limits.ok
            THEN "Decompression failed"
            ELSE IF Len(limits.limits) # chunk_num_records
                    \/ (IF limits.limits = <<>> THEN 0
                        ELSE limits.limits[Len(limits.limits)]) # Len(values.data)
            THEN "sizes/values mismatch"
            ELSE ""
    IN IF message # "" THEN EmptyDecoder(FailedStatus(message))
       ELSE [pos |-> 0, status_ |-> kHealthy, limits_ |-> limits.limits,
             values |-> values.data, index_ |-> 0]

\* A seeded fault: the record read up to its end position from the start of
\* the values.
ReadRecord_FromZero(d) ==
    IF d.index_ = Len(d.limits_) THEN [d |-> d, ret |-> FALSE, record |-> <<>>]
    ELSE LET limit == d.limits_[d.index_ + 1]
         IN [d |-> [d EXCEPT !.index_ = @ + 1, !.pos = limit],
             ret |-> TRUE, record |-> SubSeq(d.values, 1, limit)]

\* A seeded fault: the index advanced without reading the values reader.
ReadRecord_NoRead(d) ==
    IF d.index_ = Len(d.limits_) THEN [d |-> d, ret |-> FALSE, record |-> <<>>]
    ELSE LET start == d.pos
             limit == d.limits_[d.index_ + 1]
         IN [d |-> [d EXCEPT !.index_ = @ + 1], ret |-> TRUE,
             record |-> SubSeq(d.values, start + 1, start + (limit - start))]

\* A seeded fault: the end of the chunk taken for a failure.
ReadRecord_FailsAtEnd(d) ==
    IF d.index_ = Len(d.limits_)
    THEN [d |-> [d EXCEPT !.status_ = Fail(@, "End of chunk")], ret |-> FALSE,
          record |-> <<>>]
    ELSE LET start == d.pos
             limit == d.limits_[d.index_ + 1]
         IN [d |-> [d EXCEPT !.index_ = @ + 1, !.pos = start + (limit - start)],
             ret |-> TRUE,
             record |-> SubSeq(d.values, start + 1, start + (limit - start))]

\* ChunkDecoder::ReadRecord(string_view*), (std::string*) and (Chain*): the
\* next limit - start bytes of values_reader_.
ReadRecord(d) ==
    IF d.index_ = Len(d.limits_) THEN [d |-> d, ret |-> FALSE, record |-> <<>>]
    ELSE LET start == d.pos
             limit == d.limits_[d.index_ + 1]
         IN [d |-> [d EXCEPT !.index_ = @ + 1, !.pos = start + (limit - start)],
             ret |-> TRUE,
             record |-> SubSeq(d.values, start + 1, start + (limit - start))]

RECURSIVE ReadRecords(_)
\* The records that successive ReadRecord calls return until one returns false.
ReadRecords(d) ==
    LET r == ReadRecord(d)
    IN IF r.ret THEN <<r.record>> \o ReadRecords(r.d) ELSE <<>>

(***************************************************************************)
(* Properties.  Encoder 1 is the encoder under Spec.                       *)
(***************************************************************************)
\* Everything a call on encoder e can change: its fields and its caller's
\* destination and output variables.
EncoderState(e) ==
    <<status_[e], num_records_[e], sizes_compressor_[e], values_compressor_[e],
      dest[e], num_records[e], decoded_data_size[e]>>

IsPrefix(p, q) == Len(p) <= Len(q) /\ SubSeq(q, 1, Len(p)) = p

\* The bytes the last EncodeAndClose call appended to its destination.
Chunk(e) == SubSeq(dest[e].data, Len(dest_before[e].data) + 1, Len(dest[e].data))

RECURSIVE SizesOf(_)
\* varint(len(r1)) .. varint(len(rn))
SizesOf(records) ==
    IF records = <<>> THEN <<>>
    ELSE Varint64(Len(Head(records))) \o SizesOf(Tail(records))

\* C1: Close() is idempotent: a Close() that directly follows a Close()
\* returns what the first returned and changes nothing, whatever state the
\* first one found (healthy, failed, closed with success or with a failure).
C1_CloseIdempotent ==
    [][(closes[1] >= 1 /\ last'[1].op = "Close")
        => (last'[1].ret = last[1].ret /\ EncoderState(1)' = EncoderState(1))]_vars

\* C1 witness: a second Close() in a row has run on an encoder that had
\* failed before the first.
C1_Witness ==
    closes[1] = 2 /\ status_[1].tag = "FailedStatus" /\ ~last[1].ret

\* C2 as stated: once failed, the encoder is never healthy again, whatever is
\* called on it, Reset() included.
C2_Original ==
    [][status_[1].tag = "FailedStatus" => ~healthy(status_[1]')]_vars

\* C2 as amended: once failed, the encoder is not healthy after any call
\* other than Reset() (Fail, Close, AddRecord, AddRecords, EncodeAndClose).
C2_MonotonicButReset ==
    [][(status_[1].tag = "FailedStatus" /\ last'[1].op # "Reset")
        => ~healthy(status_[1]')]_vars

\* C2 witness: a failed encoder has been closed and then asked to encode.
C2_Witness ==
    /\ status_[1].tag = "FailedStatus"
    /\ status_[1].closed
    /\ last[1].op = "EncodeAndClose"

\* C3: the first failure wins: Fail() and Close() on a failed object keep its
\* message, and Fail(m) on a healthy object makes m the message.
C3_FirstFailureWins ==
    [][/\ (status_[1].tag = "FailedStatus" /\ last'[1].op \in {"Fail", "Close"})
          => Message(status_[1]') = Message(status_[1])
       /\ (healthy(status_[1]) /\ last'[1].op = "Fail")
          => Message(status_[1]') = last'[1].arg]_vars

\* C3 witness: Fail("m2") has run on an object whose message is "m1".
C3_Witness ==
    /\ last[1].op = "Fail"
    /\ last[1].arg = "m2"
    /\ Message(status_[1]) = "m1"

ChunkOf(type, sizes, values) ==
    <<type>> \o Varint64(Len(Compress(type, sizes))) \o Compress(type, sizes)
             \o Compress(type, values)

\* C5: EncodeAndClose on a healthy encoder leaves in dest what dest held
\* followed by a prefix of: the compression type byte, varint(length of the
\* compressed sizes), the compressed sizes, the compressed values; and by all
\* of it when it returns true.
C5_ChunkLayout ==
    [][(healthy(status_[1]) /\ last'[1].op = "EncodeAndClose")
        => LET chunk == ChunkOf(compression_type_[1],
                                sizes_compressor_[1].writer.data,
                                values_compressor_[1].writer.data)
           IN /\ IsPrefix(dest_before[1]'.data, dest[1]'.data)
              /\ IsPrefix(Chunk(1)', chunk)
              /\ last'[1].ret => Chunk(1)' = chunk]_vars

\* C5 witness: a chunk of two records, one of them long, was written with
\* kBrotli behind a header.
C5_Witness ==
    /\ last[1].op = "EncodeAndClose"
    /\ last[1].ret
    /\ compression_type_[1] = kBrotli
    /\ Len(added[1]) = 2
    /\ LongRecord \in {added[1][i] : i \in 1..Len(added[1])}
    /\ dest_before[1].data = <<255>>
    /\ Len(Chunk(1)) > 4

\* C6: while the encoder is healthy the sizes stream is the varints of the
\* lengths of the records added, in order, the values stream is the records
\* one after the other, the number of sizes is num_records() and their sum is
\* the length of the values stream.
C6_StreamsHoldRecords ==
    healthy(status_[1])
    => LET sizes == sizes_compressor_[1].writer.data
           values == values_compressor_[1].writer.data
           limits == ReadSizes(sizes, 1, 0)
       IN /\ sizes = SizesOf(added[1])
          /\ values = Concat(added[1])
          /\ limits.ok
          /\ Len(limits.limits) = num_records_[1]
          /\ (IF limits.limits = <<>> THEN 0 ELSE limits.limits[Len(limits.limits)])
             = Len(values)

\* C6 witness: AddRecords has added to a record added before, and a long
\* record is among them.
C6_Witness ==
    /\ healthy(status_[1])
    /\ last[1].op = "AddRecords"
    /\ Len(added[1]) = 2
    /\ added[1][1] # <<>>
    /\ added[1][2] = LongRecord

\* C7: when EncodeAndClose returns true, *num_records is the number of records
\* added and *decoded_data_size is the sum of their lengths.
C7_CountsReported ==
    (last[1].op = "EncodeAndClose" /\ last[1].ret)
    => /\ num_records[1] = Stored(Len(added[1]))
       /\ decoded_data_size[1] = Stored(Len(Concat(added[1])))

\* C7 witness: counts were reported for two records of different lengths.
C7_Witness ==
    /\ last[1].op = "EncodeAndClose"
    /\ last[1].ret
    /\ num_records[1] = Stored(2)
    /\ decoded_data_size[1] = Stored(LongLen + 2)

\* C8: the chunk a successful EncodeAndClose wrote decodes, by ReadRecord
\* calls from index 0, to the records added, in order, and then ends.
C8_RoundTrip ==
    (last[1].op = "EncodeAndClose" /\ last[1].ret)
    => LET d == DecoderReset(Chunk(1), num_records[1].value)
       IN /\ healthy(d.status_)
          /\ ReadRecords(d) = added[1]
          /\ Len(d.limits_) = Len(added[1])

\* C8 witness: a kZstd chunk of an empty and a long record was written.
C8_Witness ==
    /\ last[1].op = "EncodeAndClose"
    /\ last[1].ret
    /\ compression_type_[1] = kZstd
    /\ added[1] = <<<<>>, LongRecord>>

\* C10 as stated: after EncodeAndClose has returned, true or false, the
\* encoder is closed.
C10_Original ==
    last[1].op = "EncodeAndClose" => closed(status_[1])

\* C9: two encoders constructed with the same options and fed the same
\* records, one by AddRecord calls and one by AddRecords calls, into
\* destinations that may differ, write the same chunk and report the same
\* num_records and decoded_data_size.
C9_Deterministic ==
    (/\ \A e \in Encoders : last[e].op = "EncodeAndClose" /\ last[e].ret
     /\ added[1] = added[2])
    => /\ Chunk(1) = Chunk(2)
       /\ num_records[1] = num_records[2]
       /\ decoded_data_size[1] = decoded_data_size[2]

\* C9 witness: both encoders have written a chunk of the same two records
\* after different destinations' contents.
C9_Witness ==
    /\ \A e \in Encoders : last[e].op = "EncodeAndClose" /\ last[e].ret
    /\ added[1] = added[2]
    /\ added[1] = <<<<8, 1>>, LongRecord>>
    /\ dest_before[1] # dest_before[2]
    /\ compression_type_[1] = kBrotli

TooManyRecords(s) ==
    /\ s.status_ = FailedStatus("Too many records")
    /\ ~s.ret
    /\ s.num_records_ = num_records_[1]
    /\ s.sizes_compressor_ = sizes_compressor_[1]
    /\ s.values_compressor_ = values_compressor_[1]

\* C12: the counter never wraps.  On a healthy encoder, AddRecord with the
\* counter at its maximum, and AddRecords with more limits than the counter
\* has room for, fail with "Too many records", return false and leave the
\* counter and both streams unchanged; otherwise, with writers that accept
\* the bytes, the call returns true and the counter grows by the number of
\* records added.
C12_CounterNeverWraps ==
    healthy(status_[1]) =>
        /\ \A record \in RecordSet :
               LET s == AddRecordImpl(Self(1), record, "none")
               IN IF num_records_[1] = kMaxUint64 THEN TooManyRecords(s)
                  ELSE s.ret /\ s.num_records_ = num_records_[1] + 1
        /\ \A batch \in SeqsUpTo(RecordSet, MaxRecords) :
               LET s == AddRecords(Self(1), Concat(batch), Limits(batch),
                                   Len(batch), TRUE)
               IN IF Len(batch) > kMaxUint64 - num_records_[1] THEN TooManyRecords(s)
                  ELSE s.ret /\ s.num_records_ = num_records_[1] + Len(batch)

\* C12 witness: a batch has been refused by an encoder whose counter had room
\* for one more record.
C12_Witness ==
    /\ last[1].op = "AddRecords"
    /\ ~last[1].ret
    /\ Message(status_[1]) = "Too many records"
    /\ num_records_[1] = kMaxUint64 - 1

(***************************************************************************)
(* The ChunkDecoder as a state machine.                                    *)
(***************************************************************************)
\* A record skipped for every unparsable one: the count is kept within this.
MaxSkipped == 3

\* ChunkDecoder::num_records()
NumRecords(d) == Len(d.limits_)

\* UnsignedMin(a, b)
UnsignedMin(a, b) == IF a < b THEN a ELSE b

\* A seeded fault: the index set without seeking the values reader.
SetIndex_NoSeek(d, index) ==
    [d EXCEPT !.index_ = UnsignedMin(index, NumRecords(d))]

\* ChunkDecoder::SetIndex(index)
SetIndex(d, index) ==
    LET index_ == UnsignedMin(index, NumRecords(d))
        start == IF index_ = 0 THEN 0 ELSE d.limits_[index_]
    IN [d EXCEPT !.index_ = index_, !.pos = start]

RECURSIVE ParsePartial(_, _)
\* MessageLite::ParsePartialFrom..., for the bytes from index i on: fields of
\* a number above 0 and of wire type varint (0) or length-delimited (2).
ParsePartial(bytes, i) ==
    IF i > Len(bytes) THEN TRUE
    ELSE LET tag == ReadVarint64(bytes, i)
             value == ReadVarint64(bytes, tag.next)
         IN IF ~tag.ok \/ tag.value \div 8 = 0 THEN FALSE
            ELSE IF tag.value % 8 = 0
            THEN value.ok /\ ParsePartial(bytes, value.next)
            ELSE IF tag.value % 8 = 2
            THEN /\ value.ok
                 /\ value.next + value.value - 1 <= Len(bytes)
                 /\ ParsePartial(bytes, value.next + value.value)
            ELSE FALSE

\* A seeded fault: an unparsable record is skipped without being counted.
RECURSIVE ReadRecordMessage_NoCount(_, _, _)
ReadRecordMessage_NoCount(d, skip_errors, skipped_records) ==
    IF ~healthy(d.status_) \/ d.index_ = NumRecords(d)
    THEN [d |-> d, skipped_records |-> skipped_records, ret |-> FALSE, record |-> <<>>]
    ELSE LET start == d.pos
             limit == d.limits_[d.index_ + 1]
             bytes == SubSeq(d.values, start + 1, limit)
             d1 == [d EXCEPT !.index_ = @ + 1, !.pos = limit]
         IN IF ParsePartial(bytes, 1)
            THEN [d |-> d1, skipped_records |-> skipped_records, ret |-> TRUE,
                  record |-> bytes]
            ELSE IF skip_errors
            THEN ReadRecordMessage_NoCount(d1, skip_errors, skipped_records)
            ELSE [d |-> [d1 EXCEPT !.status_ = Fail(@, "Failed to parse message"),
                                   !.index_ = NumRecords(d),
                                   !.pos = Len(d.values)],
                  skipped_records |-> skipped_records, ret |-> FALSE,
                  record |-> <<>>]

\* ChunkDecoder::ReadRecord(MessageLite*): false on a decoder that is not
\* healthy or at the end of the chunk; a record that does not parse is
\* skipped and counted when skip_errors_, and fails the decoder otherwise,
\* which then stands at the end of the chunk.
RECURSIVE ReadRecordMessage(_, _, _)
ReadRecordMessage(d, skip_errors, skipped_records) ==
    IF ~healthy(d.status_) \/ d.index_ = NumRecords(d)
    THEN [d |-> d, skipped_records |-> skipped_records, ret |-> FALSE, record |-> <<>>]
    ELSE LET start == d.pos
             limit == d.limits_[d.index_ + 1]
             bytes == SubSeq(d.values, start + 1, limit)
             d1 == [d EXCEPT !.index_ = @ + 1, !.pos = limit]
         IN IF ParsePartial(bytes, 1)
            THEN [d |-> d1, skipped_records |-> skipped_records, ret |-> TRUE,
                  record |-> bytes]
            ELSE IF skip_errors
            THEN ReadRecordMessage(d1, skip_errors, skipped_records + 1)
            ELSE [d |-> [d1 EXCEPT !.status_ = Fail(@, "Failed to parse message"),
                                   !.index_ = NumRecords(d),
                                   !.pos = Len(d.values)],
                  skipped_records |-> skipped_records, ret |-> FALSE,
                  record |-> <<>>]

\* The chunks handed to Reset(chunk), each with the record count of its
\* header: the simple chunks of up to MaxRecords records under each
\* compression type, a chunk of an unknown compression type, a chunk whose
\* sizes do not add up to its values, and one with a record less than its
\* header counts.
ChunkInputs ==
    {[data |-> ChunkOf(type, SizesOf(batch), Concat(batch)), num_records |-> Len(batch)] :
        type \in CompressionTypes, batch \in SeqsUpTo(RecordSet, MaxRecords)}
    \cup {[data |-> <<3, 0>>, num_records |-> 0],
          [data |-> ChunkOf(kNone, SizesOf(<<<<8, 1>>>>), <<8>>), num_records |-> 1],
          [data |-> ChunkOf(kBrotli, SizesOf(<<<<8, 1>>>>), <<8, 1>>), num_records |-> 2]}

\* The call op(arg) on the decoder ends in d with skipped_records records
\* skipped, returning ret and, when it reads, record.
DecoderCommit(d, skipped_records, op, arg, ret, record) ==
    /\ decoder' = d
    /\ skipped_records_' = skipped_records
    /\ decoder_last' = [op |-> op, arg |-> arg, ret |-> ret, record |-> record]
    /\ UNCHANGED <<skip_errors_, encoderVars, writerVars, backwardWriterVars, restVars>>

\* ChunkDecoder::Reset(): an empty chunk.
CallDecoderReset ==
    DecoderCommit(NewDecoder, 0, "Reset", 0, TRUE, <<>>)

\* ChunkDecoder::Reset(chunk)
CallDecoderResetChunk ==
    \E chunk \in ChunkInputs :
        LET d == DecoderReset(chunk.data, chunk.num_records)
        IN DecoderCommit(d, 0, "Reset(chunk)", chunk.num_records,
                         healthy(d.status_), <<>>)

\* ChunkDecoder::ReadRecord(string_view*), (std::string*), (Chain*)
CallReadRecord ==
    LET r == ReadRecord(decoder)
    IN DecoderCommit(r.d, skipped_records_, "ReadRecord", 0, r.ret, r.record)

\* ChunkDecoder::ReadRecord(MessageLite*)
CallReadRecordMessage ==
    LET r == ReadRecordMessage(decoder, skip_errors_, skipped_records_)
    IN /\ r.skipped_records <= MaxSkipped
       /\ DecoderCommit(r.d, r.skipped_records, "ReadRecord(MessageLite*)", 0,
                        r.ret, r.record)

\* ChunkDecoder::SetIndex(index), for indices up to past the end.
CallSetIndex ==
    \E index \in 0..(MaxRecords + 1) :
        DecoderCommit(SetIndex(decoder, index), skipped_records_, "SetIndex",
                      index, TRUE, <<>>)

\* A decoder constructed with either value of skip_errors.
InitDecoder ==
    /\ EncodersInit({kNone}, {0})
    /\ DecoderInit(BOOLEAN)
    /\ WritersInit
    /\ RestInit

NextDecoder ==
    \/ CallDecoderReset
    \/ CallDecoderResetChunk
    \/ CallReadRecord
    \/ CallReadRecordMessage
    \/ CallSetIndex

SpecDecoder == InitDecoder /\ [][NextDecoder]_vars

\* The end position of the record before index i of decoder d:
\* limits[i - 1], with limits[-1] = 0.
LimitBefore(d, i) == IF i = 0 THEN 0 ELSE d.limits_[i]

\* The bytes of record i of decoder d, counted from 0.
RecordAt(d, i) == SubSeq(d.values, LimitBefore(d, i) + 1, d.limits_[i + 1])

RECURSIVE Unparsable(_, _, _)
\* The number of records of decoder d from index i up to, not including,
\* index j that do not parse.
Unparsable(d, i, j) ==
    IF i >= j THEN 0
    ELSE (IF ParsePartial(RecordAt(d, i), 1) THEN 0 ELSE 1) + Unparsable(d, i + 1, j)

\* C15: after any sequence of Reset, ReadRecord and SetIndex calls, limits_
\* is sorted, index() <= num_records(), the last limit (0 when there is none)
\* is the size of the values, and the values reader stands at
\* limits[index() - 1] (0 at index 0).
C15_DecoderInvariants ==
    /\ \A i \in 1..(NumRecords(decoder) - 1) : decoder.limits_[i] <= decoder.limits_[i + 1]
    /\ \A i \in 1..NumRecords(decoder) : decoder.limits_[i] >= 0
    /\ decoder.index_ <= NumRecords(decoder)
    /\ LimitBefore(decoder, NumRecords(decoder)) = Len(decoder.values)
    /\ decoder.pos = LimitBefore(decoder, decoder.index_)

\* C15 witness: a decoder in the middle of a chunk of records of different
\* sizes, moved there by SetIndex after a read.
C15_Witness ==
    /\ decoder_last.op = "SetIndex"
    /\ decoder.index_ = 1
    /\ decoder.limits_ = <<2, LongLen + 2>>
    /\ skipped_records_ = 1

\* C16 as stated: in every state reached by Reset(chunk), ReadRecord (all
\* overloads) and SetIndex calls, a decoder that is not healthy has
\* index() = num_records().
C16_Original ==
    ~healthy(decoder.status_) => decoder.index_ = NumRecords(decoder)

\* C17: ReadRecord(MessageLite*) on a healthy decoder at an unparsable
\* record.  With skip_errors the decoder stays healthy, each unparsable
\* record passed is counted in skipped_records(), and the call goes on to the
\* next record: it returns the first record that parses, standing after it,
\* or false at the end of the chunk.  Without skip_errors the call returns
\* false and the decoder has failed.
C17_SkipErrors ==
    [][(/\ decoder_last'.op = "ReadRecord(MessageLite*)"
        /\ healthy(decoder.status_)
        /\ decoder.index_ < NumRecords(decoder)
        /\ ~ParsePartial(RecordAt(decoder, decoder.index_), 1))
       => IF skip_errors_
          THEN /\ healthy(decoder'.status_)
               /\ decoder'.index_ > decoder.index_
               /\ skipped_records_' = skipped_records_
                      + Unparsable(decoder, decoder.index_, decoder'.index_)
               /\ skipped_records_' >= skipped_records_ + 1
               /\ IF decoder_last'.ret
                  THEN /\ decoder_last'.record = RecordAt(decoder, decoder'.index_ - 1)
                       /\ ParsePartial(decoder_last'.record, 1)
                       /\ Unparsable(decoder, decoder.index_, decoder'.index_)
                             = decoder'.index_ - 1 - decoder.index_
                  ELSE /\ decoder'.index_ = NumRecords(decoder)
                       /\ Unparsable(decoder, decoder.index_, decoder'.index_)
                             = decoder'.index_ - decoder.index_
          ELSE /\ ~decoder_last'.ret
               /\ ~healthy(decoder'.status_)
               /\ skipped_records_' = skipped_records_]_vars

\* C17 witness: with skip_errors, a call has skipped the unparsable first
\* record of a chunk and returned the second.
C17_Witness ==
    /\ skip_errors_
    /\ decoder_last.op = "ReadRecord(MessageLite*)"
    /\ decoder_last.ret
    /\ decoder_last.record = <<8, 1>>
    /\ decoder.limits_ = <<LongLen, LongLen + 2>>
    /\ decoder.index_ = 2
    /\ skipped_records_ = 1

(***************************************************************************)
(* Writer and BackwardWriter: the buffer pointers.  The classes are         *)
(* abstract; PushSlow() and the Done() of the class that owns the           *)
(* destination are those of a writer that keeps its destination in memory.  *)
(***************************************************************************)
\* A writer is given at most this many bytes.
MaxPos == 3
\* PushSlow() makes a buffer of 1 to this many bytes.
MaxBuffer == 2
\* The address of a buffer.
BufferAddress == 1

BufferSizes == 1..MaxBuffer

\* The strings written: empty, one byte, two bytes.
SrcSet == {<<>>, <<1>>, <<2, 3>>}

\* PtrDistance(first, last); precondition: first <= last.
PtrDistance(first, behind) == behind - first

\* What became of a writer: w after a call that returned ret.
Returns(w, ret) == [w |-> w, ret |-> ret]

(***************************************************************************)
(* BackwardWriter: start_ >= cursor_ >= limit_, the bytes written lie       *)
(* between cursor_ and start_.                                              *)
(***************************************************************************)
\* BackwardWriter::available()
available(w) == PtrDistance(w.limit_, w.cursor_)

\* BackwardWriter::buffer_size()
buffer_size(w) == PtrDistance(w.limit_, w.start_)

\* BackwardWriter::written_to_buffer()
written_to_buffer(w) == PtrDistance(w.cursor_, w.start_)

\* A seeded fault: the bytes in the buffer left out of the position.
BackwardWriterPos_StartOnly(w) == w.start_pos_

\* BackwardWriter::pos()
BackwardWriterPos(w) == w.start_pos_ + written_to_buffer(w)

\* A seeded fault: Done() keeps the start position.
BackwardWriterDone_KeepsPos(w) ==
    [w EXCEPT !.start_ = nullptr, !.cursor_ = nullptr, !.limit_ = nullptr]

\* BackwardWriter::Done()
BackwardWriterDone(w) ==
    [w EXCEPT !.start_ = nullptr, !.cursor_ = nullptr, !.limit_ = nullptr,
              !.start_pos_ = 0]

\* Done() of the class that owns the destination: a healthy writer moves
\* what its buffer holds in front of the destination; then
\* BackwardWriter::Done().
BackwardWriterDerivedDone(w) ==
    BackwardWriterDone([w EXCEPT !.dest = IF healthy(w.status_) THEN w.buffer \o @ ELSE @,
                                 !.buffer = <<>>])

\* Object::Close() of a BackwardWriter.
BackwardWriterClose(w) ==
    IF CloseCallsDone(w.status_)
    THEN LET d == BackwardWriterDerivedDone(w)
         IN Returns([d EXCEPT !.status_ = CloseStatus(d.status_)],
                    CloseReturn(w.status_, d.status_))
    ELSE Returns(w, CloseReturn(w.status_, w.status_))

\* BackwardWriter::FailOverflow(); precondition: healthy()
BackwardWriterFailOverflow(w) ==
    Returns([w EXCEPT !.status_ = Fail(@, "BackwardWriter position overflow")], FALSE)

\* PushSlow(); precondition: available() == 0.  A writer that is not healthy
\* returns false.  Otherwise the buffer goes in front of the destination and
\* a buffer of size bytes is made, when ok; when not, the writer fails, its
\* buffer dropped.
BackwardWriterPushSlow(w, size, ok) ==
    IF ~healthy(w.status_) THEN Returns(w, FALSE)
    ELSE IF ~ok
    THEN Returns([w EXCEPT !.cursor_ = w.start_, !.limit_ = w.start_,
                           !.buffer = <<>>,
                           !.status_ = Fail(@, "destination failed")], FALSE)
    ELSE Returns([w EXCEPT !.dest = w.buffer \o @, !.buffer = <<>>,
                           !.start_pos_ = @ + written_to_buffer(w),
                           !.limit_ = BufferAddress,
                           !.cursor_ = BufferAddress + size,
                           !.start_ = BufferAddress + size], TRUE)

\* BackwardWriter::Push()
BackwardWriterPush(w, size, ok) ==
    IF available(w) > 0 THEN Returns(w, TRUE)
    ELSE BackwardWriterPushSlow(w, size, ok)

\* BackwardWriter::set_cursor(cursor); precondition:
\* start() >= cursor >= limit().  The bytes between a lowered cursor and the
\* old one are those the caller wrote there, 7 each.
set_cursor(w, cursor) ==
    [w EXCEPT !.cursor_ = cursor,
              !.buffer = IF cursor <= w.cursor_
                         THEN [i \in 1..(w.cursor_ - cursor) |-> 7] \o @
                         ELSE SubSeq(@, cursor - w.cursor_ + 1, Len(@))]

RECURSIVE BackwardWriterWriteSlow(_, _, _, _)
\* BackwardWriter::WriteSlow(string_view), in terms of Push(); precondition:
\* src.size() > available().  The end of src that fits goes to the buffer,
\* then PushSlow(), until the rest of src fits.  accepts: the PushSlow()
\* calls that succeed before one fails.
BackwardWriterWriteSlow(w, src, size, accepts) ==
    LET fits == available(w)
        w1 == [w EXCEPT !.cursor_ = w.limit_,
                        !.buffer = SubSeq(src, Len(src) - fits + 1, Len(src)) \o @]
        rest == SubSeq(src, 1, Len(src) - fits)
        p == BackwardWriterPushSlow(w1, size, accepts > 0)
    IN IF ~p.ret THEN p
       ELSE IF Len(rest) > available(p.w)
       THEN BackwardWriterWriteSlow(p.w, rest, size, accepts - 1)
       ELSE Returns([p.w EXCEPT !.cursor_ = @ - Len(rest), !.buffer = rest \o @],
                    TRUE)

\* A seeded fault: the bytes written put behind those in the buffer.
BackwardWriterWrite_Appends(w, src, size, accepts) ==
    IF Len(src) <= available(w)
    THEN Returns(IF src # <<>>
                 THEN [w EXCEPT !.cursor_ = @ - Len(src), !.buffer = @ \o src]
                 ELSE w, TRUE)
    ELSE BackwardWriterWriteSlow(w, src, size, accepts)

\* A seeded fault: the cursor moved up by the bytes written.
BackwardWriterWrite_Forward(w, src, size, accepts) ==
    IF Len(src) <= available(w)
    THEN Returns(IF src # <<>>
                 THEN [w EXCEPT !.cursor_ = @ + Len(src), !.buffer = src \o @]
                 ELSE w, TRUE)
    ELSE BackwardWriterWriteSlow(w, src, size, accepts)

\* BackwardWriter::Write(string_view src)
BackwardWriterWrite(w, src, size, accepts) ==
    IF Len(src) <= available(w)
    THEN Returns(IF src # <<>>
                 THEN [w EXCEPT !.cursor_ = @ - Len(src), !.buffer = src \o @]
                 ELSE w, TRUE)
    ELSE BackwardWriterWriteSlow(w, src, size, accepts)

\* The call op(arg) on the BackwardWriter ends as r tells.
BackwardWriterCommit(r, op, arg) ==
    /\ backward_writer' = r.w
    /\ backward_writer_last' = [op |-> op, arg |-> arg, ret |-> r.ret]
    /\ UNCHANGED <<encoderVars, decoderVars, writerVars, restVars>>

\* The writer is given src if that keeps its bytes within MaxPos.
BackwardWriterRoom(src) ==
    Len(backward_writer.dest) + Len(backward_writer.buffer) + Len(src) <= MaxPos

CallBackwardWriterPush ==
    \E size \in BufferSizes, ok \in BOOLEAN :
        BackwardWriterCommit(BackwardWriterPush(backward_writer, size, ok),
                             "Push", <<>>)

CallBackwardWriterWrite ==
    \E src \in SrcSet, size \in BufferSizes, accepts \in 0..MaxPos :
        /\ BackwardWriterRoom(src)
        /\ BackwardWriterCommit(BackwardWriterWrite(backward_writer, src, size, accepts),
                                "Write", src)

\* set_cursor(cursor) with a cursor within the buffer.
CallBackwardWriterSetCursor ==
    \E cursor \in backward_writer.limit_..backward_writer.start_ :
        /\ BackwardWriterRoom([i \in 1..(backward_writer.cursor_ - cursor) |-> 7])
        /\ BackwardWriterCommit(Returns(set_cursor(backward_writer, cursor), TRUE),
                                "set_cursor", <<>>)

\* FailOverflow(), from an operation of a derived class.
CallBackwardWriterFailOverflow ==
    /\ healthy(backward_writer.status_)
    /\ BackwardWriterCommit(BackwardWriterFailOverflow(backward_writer),
                            "FailOverflow", <<>>)

CallBackwardWriterClose ==
    BackwardWriterCommit(BackwardWriterClose(backward_writer), "Close", <<>>)

InitWriters ==
    /\ EncodersInit({kNone}, {0})
    /\ DecoderInit({FALSE})
    /\ WritersInit
    /\ RestInit

NextBackwardWriter ==
    \/ CallBackwardWriterPush
    \/ CallBackwardWriterWrite
    \/ CallBackwardWriterSetCursor
    \/ CallBackwardWriterFailOverflow
    \/ CallBackwardWriterClose

SpecBackwardWriter == InitWriters /\ [][NextBackwardWriter]_vars

\* C18: in every reachable state of a BackwardWriter, after any sequence of
\* Push, Write, set_cursor within range, failure and Close,
\* start() >= cursor() >= limit() and
\* written_to_buffer() + available() == buffer_size().
C18_BackwardPointers ==
    /\ backward_writer.start_ >= backward_writer.cursor_
    /\ backward_writer.cursor_ >= backward_writer.limit_
    /\ written_to_buffer(backward_writer) + available(backward_writer)
          = buffer_size(backward_writer)

\* C18 witness: a Write that did not fit the buffer has left the cursor
\* inside a new buffer.
C18_Witness ==
    /\ backward_writer_last.op = "Write"
    /\ backward_writer_last.arg = <<2, 3>>
    /\ backward_writer_last.ret
    /\ backward_writer.dest = <<3, 1>>
    /\ backward_writer.buffer = <<2>>
    /\ backward_writer.start_ > backward_writer.cursor_
    /\ backward_writer.cursor_ > backward_writer.limit_

\* C20: after Close() of a BackwardWriter in any state, start(), cursor()
\* and limit() are null, buffer_size(), available() and written_to_buffer()
\* are 0, and pos() is 0; and so it stays while the writer is closed.
C20_ClosedBackwardWriter ==
    (backward_writer_last.op = "Close" \/ closed(backward_writer.status_))
    => /\ closed(backward_writer.status_)
       /\ backward_writer.start_ = nullptr
       /\ backward_writer.cursor_ = nullptr
       /\ backward_writer.limit_ = nullptr
       /\ buffer_size(backward_writer) = 0
       /\ available(backward_writer) = 0
       /\ written_to_buffer(backward_writer) = 0
       /\ BackwardWriterPos(backward_writer) = 0

\* C20 witness: a writer that had pushed a byte and held two more in its
\* buffer has been closed.
C20_Witness ==
    /\ backward_writer_last.op = "Close"
    /\ backward_writer_last.ret
    /\ backward_writer.dest = <<2, 3, 1>>

(***************************************************************************)
(* Writer: start_ <= cursor_ <= limit_, the bytes written lie between       *)
(* start_ and cursor_.                                                      *)
(***************************************************************************)
\* Writer::available()
WriterAvailable(w) == PtrDistance(w.cursor_, w.limit_)

\* Writer::buffer_size()
WriterBufferSize(w) == PtrDistance(w.start_, w.limit_)

\* Writer::written_to_buffer()
WriterWrittenToBuffer(w) == PtrDistance(w.start_, w.cursor_)

\* Writer::pos()
WriterPos(w) == w.start_pos_ + WriterWrittenToBuffer(w)

\* Writer::FailOverflow(); precondition: healthy()
FailOverflow(w) ==
    Returns([w EXCEPT !.status_ = Fail(@, "Writer position overflow")], FALSE)

\* PushSlow(); precondition: available() == 0.  A writer that is not healthy
\* returns false.  Otherwise the buffer goes behind the destination and a
\* buffer of size bytes is made, when ok; when not, the writer fails, its
\* buffer dropped.
PushSlow(w, size, ok) ==
    IF ~healthy(w.status_) THEN Returns(w, FALSE)
    ELSE IF ~ok
    THEN Returns([w EXCEPT !.cursor_ = w.start_, !.limit_ = w.start_,
                           !.buffer = <<>>,
                           !.status_ = Fail(@, "destination failed")], FALSE)
    ELSE Returns([w EXCEPT !.dest = @ \o w.buffer, !.buffer = <<>>,
                           !.start_pos_ = @ + WriterWrittenToBuffer(w),
                           !.start_ = BufferAddress,
                           !.cursor_ = BufferAddress,
                           !.limit_ = BufferAddress + size], TRUE)

\* Writer::Push()
Push(w, size, ok) ==
    IF WriterAvailable(w) > 0 THEN Returns(w, TRUE) ELSE PushSlow(w, size, ok)

RECURSIVE WriteSlowFrom(_, _, _, _)
\* Writer::WriteSlow(string_view) from the label skip_copy on: PushSlow(),
\* and while src does not fit, the bytes that fit copied and PushSlow()
\* again; then the rest of src copied.
WriteSlowFrom(w, src, size, accepts) ==
    LET p == PushSlow(w, size, accepts > 0)
        available_length == WriterAvailable(p.w)
        w1 == [p.w EXCEPT !.buffer = @ \o SubSeq(src, 1, available_length),
                          !.cursor_ = p.w.limit_]
    IN IF ~p.ret THEN p
       ELSE IF Len(src) > WriterAvailable(p.w)
       THEN WriteSlowFrom(w1, SubSeq(src, available_length + 1, Len(src)),
                          size, accepts - 1)
       ELSE Returns([p.w EXCEPT !.buffer = @ \o src, !.cursor_ = @ + Len(src)],
                    TRUE)

\* A seeded fault: WriteSlow() without src.remove_prefix(available_length).
WriteSlow_KeepsPrefix(w, src, size, accepts) ==
    LET available_length == WriterAvailable(w)
        w1 == [w EXCEPT !.buffer = @ \o SubSeq(src, 1, available_length),
                        !.cursor_ = w.limit_]
    IN IF WriterAvailable(w) = 0 THEN WriteSlowFrom(w, src, size, accepts)
       ELSE WriteSlowFrom(w1, src, size, accepts)

\* Writer::WriteSlow(string_view src); precondition:
\* src.size() > available().  accepts: the PushSlow() calls that succeed
\* before one fails.
WriteSlow(w, src, size, accepts) ==
    LET available_length == WriterAvailable(w)
        w1 == [w EXCEPT !.buffer = @ \o SubSeq(src, 1, available_length),
                        !.cursor_ = w.limit_]
    IN IF WriterAvailable(w) = 0 THEN WriteSlowFrom(w, src, size, accepts)
       ELSE WriteSlowFrom(w1, SubSeq(src, available_length + 1, Len(src)),
                          size, accepts)

\* Writer::Write(string_view src)
WriterWrite(w, src, size, accepts) ==
    IF Len(src) <= WriterAvailable(w)
    THEN Returns(IF src # <<>>
                 THEN [w EXCEPT !.buffer = @ \o src, !.cursor_ = @ + Len(src)]
                 ELSE w, TRUE)
    ELSE WriteSlow(w, src, size, accepts)

\* Writer::Done(), with the Done() of the class that owns the destination:
\* a healthy writer moves what its buffer holds behind the destination.
WriterDone(w) ==
    [w EXCEPT !.dest = IF healthy(w.status_) THEN @ \o w.buffer ELSE @,
              !.buffer = <<>>, !.start_ = nullptr, !.cursor_ = nullptr,
              !.limit_ = nullptr, !.start_pos_ = 0]

\* Object::Close() of a Writer.
WriterObjectClose(w) ==
    IF CloseCallsDone(w.status_)
    THEN LET d == WriterDone(w)
         IN Returns([d EXCEPT !.status_ = CloseStatus(d.status_)],
                    CloseReturn(w.status_, d.status_))
    ELSE Returns(w, CloseReturn(w.status_, w.status_))

\* The call op(arg) on the Writer ends as r tells.
WriterCommit(r, op, arg) ==
    /\ writer' = r.w
    /\ writer_last' = [op |-> op, arg |-> arg, ret |-> r.ret]
    /\ UNCHANGED <<encoderVars, decoderVars, backwardWriterVars, restVars>>

CallWriterPush ==
    \E size \in BufferSizes, ok \in BOOLEAN :
        WriterCommit(Push(writer, size, ok), "Push", <<>>)

\* Write(src), if src keeps the bytes of the writer within MaxPos.
CallWriterWrite ==
    \E src \in SrcSet, size \in BufferSizes, accepts \in 0..MaxPos :
        /\ Len(writer.dest) + Len(writer.buffer) + Len(src) <= MaxPos
        /\ WriterCommit(WriterWrite(writer, src, size, accepts), "Write", src)

\* FailOverflow(), from an operation of a derived class.
CallWriterFailOverflow ==
    /\ healthy(writer.status_)
    /\ WriterCommit(FailOverflow(writer), "FailOverflow", <<>>)

CallWriterClose ==
    WriterCommit(WriterObjectClose(writer), "Close", <<>>)

NextWriter ==
    \/ CallWriterPush
    \/ CallWriterWrite
    \/ CallWriterFailOverflow
    \/ CallWriterClose

SpecWriter == InitWriters /\ [][NextWriter]_vars

\* C19 as stated: in every reachable state where a Writer is not healthy,
\* the state right after FailOverflow() on a writer with a buffer included,
\* start() == cursor() == limit(), and available(), buffer_size() and
\* written_to_buffer() are 0.
C19_Original ==
    ~healthy(writer.status_)
    => /\ writer.start_ = writer.cursor_
       /\ writer.cursor_ = writer.limit_
       /\ WriterAvailable(writer) = 0
       /\ WriterBufferSize(writer) = 0
       /\ WriterWrittenToBuffer(writer) = 0

Held(w) == w.buffer \o w.dest

\* C22: a BackwardWriter writes back to front.  A Write(src) that returns
\* true puts src in front of the bytes the writer holds, so that after
\* Write(w1), .., Write(wn) it holds wn .. w1; and a Write of
\* n <= available() bytes lowers cursor() by n, with the n bytes at the new
\* cursor and start(), limit() and the start position unchanged.
C22_BackToFront ==
    [][(backward_writer_last'.op = "Write" /\ backward_writer_last'.ret)
       => LET src == backward_writer_last'.arg
          IN /\ Held(backward_writer') = src \o Held(backward_writer)
             /\ Len(src) <= available(backward_writer)
                => /\ backward_writer'.cursor_ = backward_writer.cursor_ - Len(src)
                   /\ SubSeq(backward_writer'.buffer, 1, Len(src)) = src
                   /\ backward_writer'.start_ = backward_writer.start_
                   /\ backward_writer'.limit_ = backward_writer.limit_
                   /\ backward_writer'.start_pos_ = backward_writer.start_pos_
                   /\ backward_writer'.dest = backward_writer.dest]_vars

\* C22 witness: <<1>> was written and pushed to the destination, and then
\* <<2, 3>> was written into the buffer, in front of it.
C22_Witness ==
    /\ backward_writer_last.op = "Write"
    /\ backward_writer_last.arg = <<2, 3>>
    /\ backward_writer_last.ret
    /\ backward_writer.buffer = <<2, 3>>
    /\ backward_writer.dest = <<1>>
    /\ backward_writer.start_pos_ = 1
    /\ backward_writer.cursor_ = backward_writer.limit_

(***************************************************************************)
(* The transpose codec.  A chunk is the parsed header: the nodes of the     *)
(* state machine, the first of them the start node, and the buffers, each   *)
(* named by its column: the path of tags from the root down to the field    *)
(* (a tag holds the wire type); the non-proto buffer is the column <<>>.    *)
(* The bytes of the header and the compression of the buckets are not       *)
(* modelled.  A field filter is a set of paths of field numbers, each       *)
(* including what lies below it; {<<>>} includes all fields.                *)
(***************************************************************************)
\* The records transposed: empty; a varint field 1; a bytes field 2; a
\* submessage field 3 holding a varint field 1; a varint field 1 and a
\* submessage field 3 holding varint fields 1 and 2; and one that is not a
\* message.
TransposeRecordSet ==
    {<<>>, <<8, 1>>, <<18, 1, 5>>, <<26, 2, 8, 2>>,
     <<8, 1, 26, 4, 8, 2, 16, 3>>, <<7>>}

All == {<<>>}

FieldFilterSet == {All, {<<1>>}, {<<3>>}, {<<3, 1>>}, {<<2>>, <<3, 2>>}, {}}

RECURSIVE ParseTuples(_, _)
\* The (tag, wire_value) tuples of the message in bytes from index i on;
\* precondition: ParsePartial(bytes, i).  The value of a varint field is its
\* varint, that of a length-delimited field its length and its payload.
ParseTuples(bytes, i) ==
    IF i > Len(bytes) THEN <<>>
    ELSE LET tag == ReadVarint64(bytes, i)
             value == ReadVarint64(bytes, tag.next)
             end == IF tag.value % 8 = 0 THEN value.next - 1
                    ELSE value.next + value.value - 1
         IN <<[tag |-> SubSeq(bytes, i, tag.next - 1),
               value |-> SubSeq(bytes, tag.next, end),
               payload |-> SubSeq(bytes, value.next, end)]>>
            \o ParseTuples(bytes, end + 1)

\* The wire type and the field number of a varint-encoded tag.
WireType(tag) == ReadVarint64(tag, 1).value % 8
FieldNumber(tag) == ReadVarint64(tag, 1).value \div 8

\* A length-delimited field is taken for a submessage when its payload is
\* not empty and parses as a message.
IsSubmessage(tuple) ==
    /\ WireType(tuple.tag) = 2
    /\ tuple.payload # <<>>
    /\ ParsePartial(tuple.payload, 1)

\* A node of the state machine, but for next_node.  buffer names the column
\* to read from; size is the N of CopyTagAndBytes and the len of
\* NonProtoRecord.
Node(callback_type, tag_data, buffer, size) ==
    [callback_type |-> callback_type, tag_data |-> tag_data, buffer |-> buffer,
     size |-> size, next_node |-> nullptr]

RECURSIVE MessageNodes(_, _)
\* The control flow of a message, in the order the decoder takes it: from
\* the last field to the first, as it writes backwards.
MessageNodes(tuples, path) ==
    IF tuples = <<>> THEN <<>>
    ELSE LET tuple == tuples[Len(tuples)]
             column == path \o tuple.tag
         IN (IF IsSubmessage(tuple)
             THEN <<Node("StartSubmessage", tuple.tag, column, 0)>>
                  \o MessageNodes(ParseTuples(tuple.payload, 1), column)
                  \o <<Node("EndSubmessage", <<>>, column, 0)>>
             ELSE IF WireType(tuple.tag) = 0
             THEN <<Node("CopyTagAndVarint", tuple.tag, column, 0)>>
             ELSE <<Node("CopyTagAndBytes", tuple.tag, column, Len(tuple.value))>>)
            \o MessageNodes(SubSeq(tuples, 1, Len(tuples) - 1), path)

RECURSIVE MessageData(_, _, _)
\* The payloads of a message routed to a column, in the order the decoder
\* reads them.
MessageData(tuples, path, column) ==
    IF tuples = <<>> THEN <<>>
    ELSE LET tuple == tuples[Len(tuples)]
             here == path \o tuple.tag
         IN (IF IsSubmessage(tuple)
             THEN MessageData(ParseTuples(tuple.payload, 1), here, column)
             ELSE IF here = column THEN tuple.value ELSE <<>>)
            \o MessageData(SubSeq(tuples, 1, Len(tuples) - 1), path, column)

\* The nodes of one record: those of its message, or the node that emits
\* the raw bytes of a record that does not parse; then EndOfRecord.
RecordNodes(record) ==
    (IF ParsePartial(record, 1) THEN MessageNodes(ParseTuples(record, 1), <<>>)
     ELSE <<Node("NonProtoRecord", <<>>, <<>>, Len(record))>>)
    \o <<Node("EndOfRecord", <<>>, <<>>, 0)>>

\* What of one record goes to a column.
RecordData(record, column) ==
    IF ParsePartial(record, 1) THEN MessageData(ParseTuples(record, 1), <<>>, column)
    ELSE IF column = <<>> THEN record ELSE <<>>

RECURSIVE ChunkNodes(_)
\* The nodes of the records from the last to the first: the decoder, which
\* writes backwards, ends with the first record in front.
ChunkNodes(records) ==
    IF records = <<>> THEN <<>>
    ELSE RecordNodes(records[Len(records)])
         \o ChunkNodes(SubSeq(records, 1, Len(records) - 1))

RECURSIVE ChunkData(_, _)
ChunkData(records, column) ==
    IF records = <<>> THEN <<>>
    ELSE RecordData(records[Len(records)], column)
         \o ChunkData(SubSeq(records, 1, Len(records) - 1), column)

\* The nodes one after another, each leading to the next, the last to none.
Linked(nodes) ==
    [i \in 1..Len(nodes) |->
        [nodes[i] EXCEPT !.next_node = IF i < Len(nodes) THEN i + 1 ELSE nullptr]]

\* The transpose encoder, up to the header layout: the state machine and the
\* column buffers of the records.
TransposeEncode(records) ==
    LET nodes == Linked(ChunkNodes(records))
        columns == {nodes[i].buffer : i \in 1..Len(nodes)}
    IN [nodes |-> nodes,
        buffers |-> [column \in columns |-> ChunkData(records, column)]]

(***************************************************************************)
(* TransposeDecoder: Reset() parses, looks for an implicit loop and runs    *)
(* the decoding loop, one callback at a time, into a BackwardWriter.        *)
(***************************************************************************)
\* The bytes a callback takes from its buffer when there are enough: those
\* of one varint, or size bytes.
Consumed(node, buffer) ==
    CASE node.callback_type = "CopyTagAndVarint" -> ReadVarint64(buffer, 1).next - 1
      [] node.callback_type \in {"CopyTagAndBytes", "NonProtoRecord"} -> node.size
      [] OTHER -> 0

\* A structural node: its callback consumes no byte of any buffer.
Structural(node) ==
    \/ node.callback_type \in {"CopyTag", "StartSubmessage", "EndSubmessage",
                               "EndOfRecord", "Failure"}
    \/ node.callback_type \in {"CopyTagAndBytes", "NonProtoRecord"} /\ node.size = 0

RECURSIVE ImplicitPath(_, _, _, _)
\* Following next_node from node j through structural nodes only leads to
\* node i within steps nodes.
ImplicitPath(nodes, i, j, steps) ==
    /\ j # nullptr
    /\ Structural(nodes[j])
    /\ \/ j = i
       \/ steps > 0 /\ ImplicitPath(nodes, i, nodes[j].next_node, steps - 1)

\* A seeded fault: no state machine is taken to contain an implicit loop.
ContainsImplicitLoop_Never(nodes) == FALSE

\* TransposeDecoder::ContainsImplicitLoop()
ContainsImplicitLoop(nodes) ==
    \E i \in 1..Len(nodes) :
        Structural(nodes[i]) /\ ImplicitPath(nodes, i, nodes[i].next_node, Len(nodes))

\* A field at path is included when the filter holds the path or one above.
Included(field_filter, path) == \E f \in field_filter : IsPrefix(f, path)

\* A submessage at path is entered when it is included or the filter holds a
\* path below it.
Entered(field_filter, path) ==
    Included(field_filter, path) \/ \E f \in field_filter : IsPrefix(path, f)

\* A seeded fault: the callbacks of the fields of an entered submessage are
\* not looked up in the filter.
SetCallbackType_WholeSubmessage(field_filter, skipped_submessage_level, submessage_stack, node) ==
    IF skipped_submessage_level > 0 \/ submessage_stack = <<>> THEN "Skip"
    ELSE node.callback_type

\* TransposeDecoder::SetCallbackType(): the callback of a node under a
\* filter, from the path the submessage stack and the node's tag make.
\* "Skip" reads what the callback it stands for reads, and writes nothing.
SetCallbackType(field_filter, skipped_submessage_level, submessage_stack, node) ==
    LET path == [i \in 1..Len(submessage_stack)
                    |-> FieldNumber(submessage_stack[i].tag_data)]
                \o <<FieldNumber(node.tag_data)>>
    IN CASE node.callback_type \in {"EndOfRecord", "NonProtoRecord", "Failure"} ->
              node.callback_type
         [] node.callback_type = "EndSubmessage" ->
              IF skipped_submessage_level > 0 THEN "SkippedSubmessageEnd"
              ELSE "EndSubmessage"
         [] node.callback_type = "StartSubmessage" ->
              IF skipped_submessage_level = 0 /\ Entered(field_filter, path)
              THEN "StartSubmessage" ELSE "SkippedSubmessageStart"
         [] OTHER ->
              IF skipped_submessage_level = 0 /\ Included(field_filter, path)
              THEN node.callback_type ELSE "Skip"

\* Reset() returns false, failed with message.
TransposeFail(t, message) ==
    [t EXCEPT !.status_ = Fail(@, message), !.call = "returned", !.ret = FALSE]

RECURSIVE WriteAll(_, _, _)
\* dest->Write(piece) for each of the pieces, until one fails.
WriteAll(w, pieces, accepts) ==
    IF pieces = <<>> THEN Returns(w, TRUE)
    ELSE LET r == BackwardWriterWrite(w, Head(pieces), MaxBuffer, accepts)
         IN IF r.ret THEN WriteAll(r.w, Tail(pieces), accepts) ELSE r

\* The end of Reset(), after the last record: the decoded size and the
\* buffers are verified.
Verify(t) ==
    IF BackwardWriterPos(t.dest) # t.decoded_data_size
    THEN TransposeFail(t, "Decoded data size mismatch")
    ELSE IF \E column \in DOMAIN t.buffers :
                /\ t.buffers[column] # <<>>
                /\ t.field_filter = All \/ column \in t.touched
    THEN TransposeFail(t, "End of data expected")
    ELSE [t EXCEPT !.call = "returned", !.ret = TRUE]

\* A seeded fault: a record's limit is the size of the record.
EndOfRecord_Sizes(t) ==
    LET position == BackwardWriterPos(t.dest)
        before == IF t.limits = <<>> THEN 0 ELSE t.limits[Len(t.limits)]
        u == [t EXCEPT !.limits = Append(@, position - before),
                       !.records_decoded = @ + 1,
                       !.node = t.nodes[t.node].next_node]
    IN IF u.records_decoded = u.num_records THEN Verify(u) ELSE u

\* The callback EndOfRecord: the record is committed, its end appended to
\* the limits, the running total verified.
EndOfRecord(t) ==
    LET position == BackwardWriterPos(t.dest)
        u == [t EXCEPT !.limits = Append(@, position),
                       !.records_decoded = @ + 1,
                       !.node = t.nodes[t.node].next_node]
    IN IF t.submessage_stack # <<>> \/ t.skipped_submessage_level > 0
       THEN TransposeFail(t, "Submessages still open")
       ELSE IF position > t.decoded_data_size
       THEN TransposeFail(t, "Decoded data size too large")
       ELSE IF u.records_decoded = u.num_records THEN Verify(u) ELSE u

\* One turn of the decoding loop of TransposeDecoder::Decode(): the callback
\* of the current node.  accepts: the PushSlow() calls of dest that succeed.
DecodeStep(t, accepts) ==
    IF t.node = nullptr THEN TransposeFail(t, "Invalid node")
    ELSE
    LET node == t.nodes[t.node]
        callback_type ==
            IF t.field_filter = All THEN node.callback_type
            ELSE SetCallbackType(t.field_filter, t.skipped_submessage_level,
                                 t.submessage_stack, node)
        buffer == t.buffers[node.buffer]
        size == Consumed(node, buffer)
        enough == /\ size <= Len(buffer)
                  /\ node.callback_type = "CopyTagAndVarint" =>
                        ReadVarint64(buffer, 1).ok
        advanced == [t EXCEPT !.node = node.next_node,
                              !.buffers[node.buffer] = SubSeq(@, size + 1, Len(@)),
                              !.touched = IF size > 0 THEN @ \cup {node.buffer} ELSE @]
        top == t.submessage_stack[Len(t.submessage_stack)]
        length == BackwardWriterPos(t.dest) - top.end_of_submessage
        pieces ==
            CASE callback_type = "CopyTag" -> <<node.tag_data>>
              [] callback_type \in {"CopyTagAndVarint", "CopyTagAndBytes"} ->
                   <<SubSeq(buffer, 1, size), node.tag_data>>
              [] callback_type = "NonProtoRecord" -> <<SubSeq(buffer, 1, size)>>
              [] callback_type = "EndSubmessage" ->
                   IF t.field_filter # All /\ length = 0 THEN <<>>
                   ELSE <<Varint64(length), top.tag_data>>
              [] OTHER -> <<>>
        written == WriteAll(t.dest, pieces, accepts)
    IN CASE callback_type = "Failure" -> TransposeFail(t, "Invalid node")
         [] callback_type = "EndOfRecord" -> EndOfRecord(t)
         [] callback_type = "StartSubmessage" ->
              [advanced EXCEPT !.submessage_stack =
                  Append(@, [end_of_submessage |-> BackwardWriterPos(t.dest),
                             tag_data |-> node.tag_data])]
         [] callback_type = "SkippedSubmessageStart" ->
              [advanced EXCEPT !.skipped_submessage_level = @ + 1]
         [] callback_type = "SkippedSubmessageEnd" ->
              [advanced EXCEPT !.skipped_submessage_level = @ - 1]
         [] callback_type = "EndSubmessage" /\ t.submessage_stack = <<>> ->
              TransposeFail(t, "Submessage stack underflow")
         [] ~enough -> TransposeFail(t, "Reading buffer failed")
         [] ~written.ret ->
              [t EXCEPT !.dest = written.w,
                        !.status_ = FailFrom(@, written.w.status_),
                        !.call = "returned", !.ret = FALSE]
         [] callback_type = "EndSubmessage" ->
              [advanced EXCEPT !.dest = written.w,
                               !.submessage_stack = SubSeq(@, 1, Len(@) - 1)]
         [] OTHER -> [advanced EXCEPT !.dest = written.w]

\* TransposeDecoder::Reset(), up to the decoding loop.  chunk is what
\* Parse() made of src; dest is a new BackwardWriter (precondition:
\* dest->pos() == 0).
TransposeReset(chunk, records, size, filter) ==
    LET t == [status_ |-> MarkHealthy(kClosedSuccessfully), call |-> "Decode",
              ret |-> TRUE, nodes |-> chunk.nodes,
              node |-> IF chunk.nodes = <<>> THEN nullptr ELSE 1,
              buffers |-> chunk.buffers, submessage_stack |-> <<>>,
              skipped_submessage_level |-> 0, dest |-> NewStream, limits |-> <<>>,
              num_records |-> records, decoded_data_size |-> size,
              field_filter |-> filter, records_decoded |-> 0, touched |-> {}]
    IN IF ContainsImplicitLoop(chunk.nodes)
       THEN TransposeFail(t, "Nodes contain an implicit loop")
       ELSE IF records = 0 THEN Verify(t)
       ELSE t

\* The nodes of the state machines that no encoder made: of each callback,
\* with the tag of a varint field 1, reading its column.
MachineNodeSet ==
    {Node(callback_type, <<8>>, <<8>>, 0) :
        callback_type \in {"CopyTag", "CopyTagAndVarint", "StartSubmessage",
                           "EndSubmessage", "EndOfRecord"}}

\* Those state machines: two nodes, each leading to either or to none, and
\* the column holding two varints.
MachineSet ==
    {[nodes |-> <<[first EXCEPT !.next_node = next1],
                  [second EXCEPT !.next_node = next2]>>,
      buffers |-> [column \in {<<8>>} |-> <<1, 1>>]] :
        first \in MachineNodeSet, second \in MachineNodeSet,
        next1 \in 0..2, next2 \in 0..2}

\* The decoded_data_size a caller passes along with records: their size, or
\* not.
DataSizes(records) == {0, 2, Len(Concat(records)), Len(Concat(records)) + 1}

\* Reset() on the transpose encoding of up to MaxRecords records.  Reset()
\* keeps nothing of an earlier call, so that the first call shows them all.
CallTransposeReset ==
    /\ transpose.call = "none"
    /\ \E records \in SeqsUpTo(TransposeRecordSet, MaxRecords),
          filter \in FieldFilterSet :
         \E count \in {Len(records), Len(records) + 1}, size \in DataSizes(records) :
            /\ transpose' = TransposeReset(TransposeEncode(records), count, size, filter)
            /\ transposed' = [records |-> records, encoded |-> TRUE]
    /\ UNCHANGED <<encoderVars, decoderVars, writerVars, backwardWriterVars, options, threadVars, objectsVars, reset_from, write_slow>>

\* Reset() on a chunk that holds any state machine.
CallTransposeResetMachine ==
    /\ transpose.call = "none"
    /\ \E machine \in MachineSet, filter \in {All, {}}, count \in 1..2 :
            /\ transpose' = TransposeReset(machine, count, 2, filter)
            /\ transposed' = [records |-> <<>>, encoded |-> FALSE]
    /\ UNCHANGED <<encoderVars, decoderVars, writerVars, backwardWriterVars, options, threadVars, objectsVars, reset_from, write_slow>>

\* The decoding loop inside Reset() takes one turn; dest accepts the bytes
\* or fails.
TransposeDecode ==
    /\ transpose.call = "Decode"
    /\ \E ok \in BOOLEAN :
         transpose' = DecodeStep(transpose, IF ok THEN kMaxInt ELSE 0)
    /\ UNCHANGED <<transposed, encoderVars, decoderVars, writerVars, backwardWriterVars, options, threadVars, objectsVars, reset_from, write_slow>>

NextTranspose ==
    \/ CallTransposeReset
    \/ CallTransposeResetMachine
    \/ TransposeDecode

SpecTranspose == InitWriters /\ [][NextTranspose]_vars

\* Reset() on any state machine; it runs to its end once called: the loop
\* goes on taking turns.
NextMachines ==
    \/ CallTransposeResetMachine
    \/ TransposeDecode

SpecMachines == InitWriters /\ [][NextMachines]_vars /\ WF_vars(TransposeDecode)

NonDecreasing(limits) == \A i \in 1..(Len(limits) - 1) : limits[i] <= limits[i + 1]

\* C23: when Reset() returns true, limits holds num_records entries that do
\* not decrease, the last of them decoded_data_size, which is dest.pos(); on
\* a valid chunk, with a dest that takes the bytes, Reset() returns true
\* unless the decoded size differs from decoded_data_size, and always when
\* all fields are decoded, dest then holding the records.
C23_ValidChunk ==
    transpose.call = "returned" =>
        /\ transpose.ret =>
              /\ healthy(transpose.status_)
              /\ Len(transpose.limits) = transpose.num_records
              /\ NonDecreasing(transpose.limits)
              /\ transpose.limits # <<>> =>
                    transpose.limits[Len(transpose.limits)] = transpose.decoded_data_size
              /\ BackwardWriterPos(transpose.dest) = transpose.decoded_data_size
        /\ ~transpose.ret => ~healthy(transpose.status_)
        /\ (/\ transposed.encoded
            /\ transpose.num_records = Len(transposed.records)
            /\ healthy(transpose.dest.status_))
           => /\ transpose.ret
                    <=> BackwardWriterPos(transpose.dest) = transpose.decoded_data_size
              /\ (/\ transpose.field_filter = All
                  /\ transpose.decoded_data_size = Len(Concat(transposed.records)))
                 => /\ transpose.ret
                    /\ Held(transpose.dest) = Concat(transposed.records)

\* C23 witness: a chunk of a varint record and a submessage record decoded.
C23_Witness ==
    /\ transpose.call = "returned"
    /\ transpose.ret
    /\ transposed.encoded
    /\ transposed.records = <<<<8, 1>>, <<26, 2, 8, 2>>>>
    /\ transpose.field_filter = All
    /\ transpose.limits = <<4, 6>>
    /\ Held(transpose.dest) = <<8, 1, 26, 2, 8, 2>>

\* Some nodes, all structural, lead each to one of them: a cycle made only
\* of structural nodes.
StructuralCycle(nodes) ==
    \E cycle \in SUBSET (1..Len(nodes)) :
        /\ cycle # {}
        /\ \A i \in cycle : Structural(nodes[i]) /\ nodes[i].next_node \in cycle

\* C24: Reset() rejects a state machine that holds a cycle made only of
\* structural nodes before it emits any record; and the decoding loop of
\* Reset() always comes to its end.
C24_DecodingTerminates ==
    /\ [](StructuralCycle(transpose.nodes)
            => /\ transpose.call = "returned" /\ ~transpose.ret
               /\ transpose.limits = <<>>
               /\ Held(transpose.dest) = <<>>)
    /\ (transpose.call = "Decode") ~> (transpose.call = "returned")

\* C24 witness: a state machine whose two nodes, CopyTag and
\* CopyTagAndVarint, lead to each other was accepted, and its decoding ended
\* when the buffer did.
C24_Witness ==
    /\ transpose.call = "returned"
    /\ ~transposed.encoded
    /\ transpose.nodes[1].callback_type = "CopyTag"
    /\ transpose.nodes[1].next_node = 2
    /\ transpose.nodes[2].callback_type = "CopyTagAndVarint"
    /\ transpose.nodes[2].next_node = 1
    /\ Message(transpose.status_) = "Reading buffer failed"
    /\ Held(transpose.dest) = <<8, 8, 1, 8, 8, 1, 8>>

RECURSIVE Project(_, _, _)
\* The fields of a message that a filter selects: those included, whole, and
\* of the others the submessages entered, if they keep a field.
Project(tuples, path, field_filter) ==
    IF tuples = <<>> THEN <<>>
    ELSE LET tuple == Head(tuples)
             here == Append(path, FieldNumber(tuple.tag))
             body == Project(ParseTuples(tuple.payload, 1), here, field_filter)
         IN (IF Included(field_filter, here) THEN tuple.tag \o tuple.value
             ELSE IF IsSubmessage(tuple) /\ Entered(field_filter, here) /\ body # <<>>
             THEN tuple.tag \o Varint64(Len(body)) \o body
             ELSE <<>>)
            \o Project(Tail(tuples), path, field_filter)

SignedMin(a, b) == IF a < b THEN a ELSE b
SignedMax(a, b) == IF a > b THEN a ELSE b

\* CompressorOptions::kMinWindowLog(), kMaxWindowLog()
kMinWindowLog == SignedMin(kMinBrotliWindowLog, kMinZstdWindowLog)
kMaxWindowLog == SignedMax(kMaxBrotliWindowLog, kMaxZstdWindowLog)

\* What window_log must be for a compression type, as set_window_log states.
ValidWindowLog(compression_type, window_log) ==
    \/ window_log = kDefaultWindowLog
    \/ compression_type = kBrotli
       /\ window_log \in kMinBrotliWindowLog..kMaxBrotliWindowLog
    \/ compression_type = kZstd
       /\ window_log \in kMinZstdWindowLog..kMaxZstdWindowLog

\* CompressorOptions::set_uncompressed()
set_uncompressed(o) ==
    [o EXCEPT !.compression_type_ = kNone, !.compression_level_ = 0]

\* CompressorOptions::set_brotli(); precondition:
\* kMinBrotli() <= compression_level <= kMaxBrotli()
set_brotli(o, compression_level) ==
    [o EXCEPT !.compression_type_ = kBrotli, !.compression_level_ = compression_level]

\* CompressorOptions::set_zstd(); precondition:
\* kMinZstd() <= compression_level <= kMaxZstd()
set_zstd(o, compression_level) ==
    [o EXCEPT !.compression_type_ = kZstd, !.compression_level_ = compression_level]

\* CompressorOptions::set_window_log(); precondition: window_log is
\* kDefaultWindowLog() or kMinWindowLog() <= window_log <= kMaxWindowLog()
set_window_log(o, window_log) == [o EXCEPT !.window_log_ = window_log]

OptionsFrame ==
    UNCHANGED <<transpose, transposed, encoderVars, decoderVars, writerVars,
                backwardWriterVars, threadVars, objectsVars, reset_from, write_slow>>

CallSetUncompressed ==
    options' = set_uncompressed(options) /\ OptionsFrame

CallSetBrotli ==
    /\ \E compression_level \in kMinBrotli..kMaxBrotli :
         options' = set_brotli(options, compression_level)
    /\ OptionsFrame

CallSetZstd ==
    /\ \E compression_level \in kMinZstd..kMaxZstd :
         options' = set_zstd(options, compression_level)
    /\ OptionsFrame

\* set_window_log() within the precondition it asserts and with a window_log
\* that is valid for the compression type selected.
CallSetWindowLog ==
    /\ \E window_log \in {kDefaultWindowLog} \cup (kMinWindowLog..kMaxWindowLog) :
         /\ ValidWindowLog(options.compression_type_, window_log)
         /\ options' = set_window_log(options, window_log)
    /\ OptionsFrame

NextOptions ==
    \/ CallSetUncompressed
    \/ CallSetBrotli
    \/ CallSetZstd
    \/ CallSetWindowLog

SpecOptions == InitWriters /\ [][NextOptions]_vars

\* C26 as stated: in every state the setters reach, window_log is valid for
\* the compression type selected.
C26_Original == ValidWindowLog(options.compression_type_, options.window_log_)

(***************************************************************************)
(* An Object between two threads: its owner calls Fail() and Close(), each  *)
(* a sequence of steps on status_ and on the FailedStatus records, while    *)
(* an observer calls healthy() and Message().  Every access of status_ is   *)
(* one step; Fail() publishes its record with release order and Message()   *)
(* loads with acquire order, so that what the owner wrote before it         *)
(* published is what the observer reads.                                    *)
(***************************************************************************)
\* The status of the Object as the single-threaded operators take it.
Status(o) ==
    IF o.status_.tag = "FailedStatus"
    THEN [tag |-> "FailedStatus", message |-> o.heap[o.status_.address].message,
          closed |-> o.heap[o.status_.address].closed]
    ELSE [tag |-> o.status_.tag, message |-> "",
          closed |-> o.status_.tag = "kClosedSuccessfully"]

\* What a read of message_data can give before the constructor has copied a
\* message to it: part of a message.
Garbage == {"", "m"}

\* A seeded fault: Fail() publishes the record before it constructs it.
FailOrder_PublishFirst == <<"NewAligned", "compare_exchange_strong", "FailedStatus">>

\* Object::Fail(string_view): the record is allocated, constructed, and then
\* published.
FailOrder == <<"NewAligned", "FailedStatus", "compare_exchange_strong">>

ThreadsFrame ==
    UNCHANGED <<transpose, transposed, options, encoderVars, decoderVars, writerVars,
                backwardWriterVars, objectsVars, reset_from, write_slow>>

\* The owner calls Fail(message); precondition: !closed()
OwnerFail ==
    /\ owner.pc = "idle"
    /\ owner.calls < MaxCalls
    /\ ~closed(Status(object))
    /\ \E message \in {"m1", "m2"} :
         owner' = [owner EXCEPT !.pc = "Fail", !.step = 1, !.message = message,
                                !.in_done = FALSE, !.calls = @ + 1]
    /\ UNCHANGED <<object, observer>>
    /\ ThreadsFrame

\* The next step of the Fail() the owner is in.
OwnerFailStep ==
    /\ owner.pc = "Fail"
    /\ LET new_status == owner.new_status
           wins == object.status_.tag = "kHealthy"
           returns == owner.step = Len(FailOrder)
       IN /\ CASE FailOrder[owner.step] = "NewAligned" ->
                    \E a \in Addresses :
                       /\ object.heap[a].state = "free"
                       /\ \A b \in Addresses : object.heap[b].state = "free" => a <= b
                       /\ object' = [object EXCEPT !.heap[a].state = "allocated"]
                       /\ owner' = [owner EXCEPT !.new_status = a, !.step = @ + 1]
                 [] FailOrder[owner.step] = "FailedStatus" ->
                    /\ object' = [object EXCEPT !.heap[new_status] =
                                     [state |-> @.state, message |-> owner.message,
                                      closed |-> FALSE]]
                    /\ owner' = [owner EXCEPT
                                    !.step = @ + 1,
                                    !.pc = IF ~returns THEN @
                                           ELSE IF owner.in_done THEN "Close" ELSE "idle"]
                 [] FailOrder[owner.step] = "compare_exchange_strong" ->
                    /\ object' = IF wins
                                 THEN [object EXCEPT !.status_ =
                                          Word("FailedStatus", new_status)]
                                 ELSE [object EXCEPT !.heap[new_status].state = "deleted"]
                    /\ owner' = [owner EXCEPT
                                    !.step = @ + 1,
                                    !.won = IF wins THEN owner.message ELSE @,
                                    !.pc = IF ~returns THEN @
                                           ELSE IF owner.in_done THEN "Close" ELSE "idle"]
    /\ UNCHANGED observer
    /\ ThreadsFrame

\* The owner calls Close(): status_ is loaded and, by the first switch,
\* either Close() returns or Done() is called.
OwnerClose ==
    /\ owner.pc = "idle"
    /\ owner.calls < MaxCalls
    /\ LET status_before == Status(object)
       IN owner' = [owner EXCEPT
                       !.calls = @ + 1, !.closes = @ + 1,
                       !.before = status_before, !.raised = "",
                       !.pc = IF CloseCallsDone(status_before) THEN "Done" ELSE "idle",
                       !.done_calls = IF CloseCallsDone(status_before) THEN @ + 1 ELSE @,
                       !.ret = IF CloseCallsDone(status_before) THEN @
                               ELSE CloseReturn(status_before, status_before)]
    /\ UNCHANGED <<object, observer>>
    /\ ThreadsFrame

\* Done(), the virtual function: it calls Fail() or does not.
OwnerDone ==
    /\ owner.pc = "Done"
    /\ \/ owner' = [owner EXCEPT !.pc = "Close"]
       \/ owner' = [owner EXCEPT !.pc = "Fail", !.step = 1, !.in_done = TRUE,
                                 !.message = "done failed", !.raised = "done failed"]
    /\ UNCHANGED <<object, observer>>
    /\ ThreadsFrame

\* Close() after Done(): status_ is loaded again and, by the second switch,
\* kClosedSuccessfully is stored or the record is marked closed.
OwnerCloseReturns ==
    /\ owner.pc = "Close"
    /\ LET status_after == Status(object)
           stored == CloseStatus(status_after)
       IN /\ object' = IF stored.tag = "FailedStatus"
                       THEN [object EXCEPT !.heap[object.status_.address].closed =
                                stored.closed]
                       ELSE [object EXCEPT !.status_ = Word(stored.tag, nullptr)]
          /\ owner' = [owner EXCEPT !.pc = "idle",
                                    !.ret = CloseReturn(owner.before, status_after)]
    /\ UNCHANGED observer
    /\ ThreadsFrame

\* The observer calls healthy(): one load of status_.
ObserverHealthy ==
    /\ observer.pc = "idle"
    /\ observer' = [observer EXCEPT !.healthy = object.status_.tag = "kHealthy"]
    /\ UNCHANGED <<object, owner>>
    /\ ThreadsFrame

\* The observer calls Message(): status_ is loaded.
ObserverMessage ==
    /\ observer.pc = "idle"
    /\ observer' = [observer EXCEPT !.pc = "Message", !.status = object.status_]
    /\ UNCHANGED <<object, owner>>
    /\ ThreadsFrame

\* Message(), the switch on what was loaded: of a record, message_data is
\* read; a record not constructed, or deleted, gives any bytes.
ObserverMessageReturns ==
    /\ observer.pc = "Message"
    /\ LET record == object.heap[observer.status.address]
       IN \E read \in (IF observer.status.tag # "FailedStatus" THEN {"Healthy", "Closed"}
                      ELSE IF record.state = "allocated" /\ record.message # ""
                      THEN {record.message}
                      ELSE Garbage) :
            /\ observer.status.tag = "kHealthy" => read = "Healthy"
            /\ observer.status.tag = "kClosedSuccessfully" => read = "Closed"
            /\ observer' = [observer EXCEPT !.pc = "idle", !.message = read]
    /\ UNCHANGED <<object, owner>>
    /\ ThreadsFrame

NextThreads ==
    \/ OwnerFail
    \/ OwnerFailStep
    \/ OwnerClose
    \/ OwnerDone
    \/ OwnerCloseReturns
    \/ ObserverHealthy
    \/ ObserverMessage
    \/ ObserverMessageReturns

SpecThreads == InitWriters /\ [][NextThreads]_vars

\* C27: whatever the interleaving, each Message() of the observer gives
\* "Healthy", "Closed" or the whole message of the Fail() that won, never
\* part of a record; and once its healthy() has returned false, it does not
\* return true.
C27_ObserverSeesWholeFailure ==
    /\ [](observer.message \in {"Healthy", "Closed"}
                                \cup (IF owner.won # "" THEN {owner.won} ELSE {}))
    /\ [][observer.healthy = FALSE => observer'.healthy = FALSE]_vars

\* C27 witness: Fail("m1") won, Fail("m2") lost and its record was deleted,
\* Close() returned, and the observer has read "m1" and an unhealthy object.
C27_Witness ==
    /\ owner.pc = "idle"
    /\ owner.won = "m1"
    /\ owner.closes = 1
    /\ \E a \in Addresses : object.heap[a].state = "deleted"
    /\ observer.pc = "idle"
    /\ observer.message = "m1"
    /\ observer.healthy = FALSE
    /\ Status(object).closed

\* C29: over the Fail() and Close() calls of the owner, Done() is called
\* once, by the first Close(), whether it found the object healthy or
\* failed, and by no later Close(); and when that Close() has returned the
\* object is closed.
C29_DoneOnce ==
    /\ owner.done_calls = (IF owner.closes >= 1 THEN 1 ELSE 0)
    /\ (owner.closes >= 1 /\ owner.pc = "idle") => closed(Status(object))

\* C29 witness: a second Close() has returned on an object that had failed
\* before the first.
C29_Witness ==
    /\ owner.closes = 2
    /\ owner.pc = "idle"
    /\ owner.done_calls = 1
    /\ owner.won = "m2"
    /\ owner.raised = ""
    /\ ~owner.ret

FailMessages == {"m1", "m2"}

ObjectsFrame ==
    UNCHANGED <<transpose, transposed, options, threadVars, encoderVars, decoderVars,
                writerVars, backwardWriterVars, reset_from, write_slow>>

\* The call op on Object o, with its arguments, leaves it with status and
\* returns ret.
ObjectsCommit(o, op, message, src, status, ret) ==
    /\ objects' = [objects EXCEPT ![o] = status]
    /\ objects_last' = [op |-> op, object |-> o, message |-> message, src |-> src,
                        before |-> objects[o], ret |-> ret]
    /\ ObjectsFrame

\* Object::Fail(string_view message); precondition: !closed()
CallObjectFail(o) ==
    \E message \in FailMessages :
        /\ ~closed(objects[o])
        /\ ObjectsCommit(o, "Fail(message)", message, objects[o],
                         Fail(objects[o], message), FALSE)

\* Object::Fail(string_view message, const Object& src)
CallObjectFailWithSrc(o, p) ==
    \E message \in FailMessages :
        /\ ~closed(objects[o])
        /\ ObjectsCommit(o, "Fail(message, src)", message, objects[p],
                         FailWithSrc(objects[o], message, objects[p]), FALSE)

\* Object::Fail(const Object& src); precondition: !src.healthy()
CallObjectFailFrom(o, p) ==
    /\ ~closed(objects[o])
    /\ ~healthy(objects[p])
    /\ ObjectsCommit(o, "Fail(src)", "", objects[p],
                     FailFrom(objects[o], objects[p]), FALSE)

\* Object::Close()
CallObjectClose(o) ==
    ObjectsCommit(o, "Close", "", objects[o],
                  IF CloseCallsDone(objects[o]) THEN CloseStatus(objects[o])
                  ELSE objects[o],
                  CloseReturn(objects[o], objects[o]))

NextObjects ==
    \E o \in 1..2 :
        \/ CallObjectFail(o)
        \/ CallObjectFailWithSrc(o, 3 - o)
        \/ CallObjectFailFrom(o, 3 - o)
        \/ CallObjectClose(o)

SpecObjects == InitWriters /\ [][NextObjects]_vars

\* What src reports: "Closed" when it was closed with success, the message
\* of its failure when it has failed.
Reported(src) == IF src.tag = "kClosedSuccessfully" THEN "Closed" ELSE src.message

\* C31: a Fail() returns false and leaves the object open and not healthy;
\* on a healthy object Fail(message, src) leaves the message `message` when
\* src is healthy and message, ": " and what src reports when it is not, and
\* Fail(src) leaves exactly what src reports.
C31_FailurePropagation ==
    LET call == objects_last
        status == objects[call.object]
    IN call.op \in {"Fail(message)", "Fail(message, src)", "Fail(src)"}
       => /\ ~call.ret
          /\ status.tag = "FailedStatus"
          /\ ~status.closed
          /\ healthy(call.before)
             => status.message =
                  (CASE call.op = "Fail(message)" -> call.message
                     [] call.op = "Fail(message, src)" /\ call.src.tag = "kHealthy"
                        -> call.message
                     [] call.op = "Fail(message, src)" /\ call.src.tag # "kHealthy"
                        -> call.message \o ": " \o Reported(call.src)
                     [] call.op = "Fail(src)" -> Reported(call.src))

\* C31 witness: a healthy object has failed with a message that embeds the
\* message of a src that had failed and was closed.
C31_Witness ==
    /\ objects_last.op = "Fail(message, src)"
    /\ healthy(objects_last.before)
    /\ objects_last.src.tag = "FailedStatus"
    /\ objects_last.src.closed
    /\ ~objects_last.ret
    /\ objects[objects_last.object] = FailedStatus("m1: m2")
(***************************************************************************)
(* AddRecords() against AddRecord() record by record.                      *)
(***************************************************************************)
RECURSIVE AddRecordEach(_, _, _, _, _, _)
\* AddRecord() called once, in order, for each slice records[start, limit)
\* of limits.  The compressors' writers are those AddRecords() meets: the
\* sizes writer accepts sizesAccepts writes, the values writer accepts its
\* writes or none.
AddRecordEach(s, records, limits, start, sizesAccepts, okValues) ==
    IF limits = <<>> THEN s
    ELSE LET fault == IF sizesAccepts <= 0 THEN "sizes"
                      ELSE IF ~okValues THEN "values" ELSE "none"
             s1 == AddRecordImpl(s, SubSeq(records, start + 1, Head(limits)), fault)
         IN AddRecordEach(s1, records, Tail(limits), Head(limits),
                          sizesAccepts - 1, okValues)

\* What the claim compares: num_records() and the uncompressed sizes and
\* values streams.
Added(s) ==
    <<s.num_records_, s.sizes_compressor_.writer.data, s.values_compressor_.writer.data>>

\* The step is the AddRecords() call of CallAddRecords with these inputs.
IsAddRecords(batch, failing) ==
    /\ last'[1].op = "AddRecords"
    /\ Room(1, Len(batch))
    /\ LET s == AddRecords(Self(1), Concat(batch), Limits(batch),
                           IF failing = 0 THEN Len(batch) ELSE failing - 1,
                           failing <= Len(batch))
       IN /\ status_'[1] = s.status_
          /\ num_records_'[1] = s.num_records_
          /\ sizes_compressor_'[1] = s.sizes_compressor_
          /\ values_compressor_'[1] = s.values_compressor_
          /\ last'[1].ret = s.ret

\* The same records, given to the encoder one by one.
Each(batch, failing) ==
    AddRecordEach(Self(1), Concat(batch), Limits(batch), 0,
                  IF failing = 0 THEN Len(batch) ELSE failing - 1,
                  failing <= Len(batch))
AddRecordsInputs ==
    {<<batch, failing>> : batch \in SeqsUpTo(RecordSet, MaxRecords),
                          failing \in 0..(MaxRecords + 1)}

\* C32 as stated: every AddRecords() call on a healthy encoder leaves
\* num_records() and the two streams as the AddRecord() calls leave them.
C32_Original ==
    [][\A input \in AddRecordsInputs :
          (healthy(status_[1]) /\ input[2] <= Len(input[1]) + 1
           /\ IsAddRecords(input[1], input[2]))
          => <<num_records_'[1], sizes_compressor_'[1].writer.data,
               values_compressor_'[1].writer.data>> = Added(Each(input[1], input[2]))]_vars

\* C32: an AddRecords() call on a healthy encoder that returns true leaves
\* num_records() and the two streams as AddRecord() called once, in order,
\* for each slice leaves them, every one of those calls returning true; when
\* it returns false for a batch that is not empty, a call among those
\* returns false as well.
C32_BatchAsEach ==
    [][\A input \in AddRecordsInputs :
          (healthy(status_[1]) /\ input[2] <= Len(input[1]) + 1
           /\ IsAddRecords(input[1], input[2]))
          => LET each == Each(input[1], input[2])
             IN /\ last'[1].ret
                   => /\ each.ret
                      /\ healthy(each.status_)
                      /\ <<num_records_'[1], sizes_compressor_'[1].writer.data,
                           values_compressor_'[1].writer.data>> = Added(each)
                /\ (~last'[1].ret /\ input[1] # <<>>) => ~healthy(each.status_)]_vars

\* C32 witness: a batch of a long and a short record has filled the counter.
C32_Witness ==
    /\ last[1].op = "AddRecords"
    /\ last[1].ret
    /\ added[1] = <<LongRecord, <<8, 1>>>>
    /\ num_records_[1] = kMaxUint64
    /\ sizes_compressor_[1].writer.data = Varint64(LongLen) \o <<2>>
    /\ Len(values_compressor_[1].writer.data) = LongLen + 2
(***************************************************************************)
(* Reset() and the chunk after it.                                         *)
(***************************************************************************)
\* What a Reset() finds: an encoder that is healthy, failed or closed, with
\* records or with none.
Found(s) ==
    (CASE s.status_.tag = "kHealthy" -> "healthy"
       [] s.status_.tag = "kClosedSuccessfully" -> "closed"
       [] s.status_.closed -> "failed and closed"
       [] OTHER -> "failed")
    \o (IF s.num_records_ > 0 THEN " with records" ELSE "")

\* Reset(), with what it found recorded; the caller takes a new destination
\* and new output variables for the next chunk.
CallResetFrom(e) ==
    /\ Committed(e, [Reset(Self(e)) EXCEPT !.dest = NewWriter, !.num_records = Unset,
                                           !.decoded_data_size = Unset], "Reset", "")
    /\ added' = [added EXCEPT ![e] = <<>>]
    /\ dest_before' = [dest_before EXCEPT ![e] = NewWriter]
    /\ reset_from' = Found(Self(e))

NextReset ==
    \/ CallAddRecord(1, Faults)
    \/ CallEncodeAndClose(1)
    \/ CallClose(1)
    \/ CallResetFrom(1)

SpecReset == Init /\ [][NextReset]_vars

\* SimpleEncoder(options, size_hint) with the options of s, given the
\* arguments of the EncodeAndClose() call of s.
SimpleEncoder(s) ==
    [s EXCEPT !.status_ = kHealthy, !.num_records_ = 0,
              !.sizes_compressor_ = NewCompressor,
              !.values_compressor_ = NewCompressor, !.ret = TRUE]

RECURSIVE AddEach(_, _)
\* AddRecord() for each of records, the compressors accepting every write.
AddEach(s, records) ==
    IF records = <<>> THEN s
    ELSE AddEach(AddRecordImpl(s, Head(records), "none"), Tail(records))

\* What a new encoder with the options of encoder 1 gives for the records
\* added to encoder 1, written to the dest that encoder 1 was given.
FromNew ==
    EncodeAndClose(AddEach(SimpleEncoder([Self(1) EXCEPT !.dest = dest_before[1],
                                                         !.num_records = Unset,
                                                         !.decoded_data_size = Unset]),
                           added[1]), 4, TRUE)

\* C33: Reset() leaves the encoder healthy, with no records and both streams
\* empty, whatever it found; records added after it and encoded with
\* success give the bytes and counts that a new encoder with the same
\* options gives for them.
C33_ResetToEmpty ==
    /\ last[1].op = "Reset"
       => /\ reset_from # "no Reset"
          /\ healthy(status_[1])
          /\ num_records_[1] = 0
          /\ sizes_compressor_[1].writer.data = <<>>
          /\ values_compressor_[1].writer.data = <<>>
          /\ Self(1) = SimpleEncoder(Self(1))
    /\ (reset_from # "no Reset" /\ last[1].op = "EncodeAndClose" /\ last[1].ret)
       => /\ FromNew.ret
          /\ dest[1].data = FromNew.dest.data
          /\ num_records[1] = FromNew.num_records
          /\ decoded_data_size[1] = FromNew.decoded_data_size
          /\ num_records[1] = Stored(Len(added[1]))

\* C33 witness: an encoder that had failed with records was reset, and has
\* then encoded two records.
C33_Witness ==
    /\ reset_from = "failed with records"
    /\ last[1].op = "EncodeAndClose"
    /\ last[1].ret
    /\ added[1] = <<<<8, 1>>, <<>>>>
    /\ num_records[1] = Stored(2)
    /\ decoded_data_size[1] = Stored(2)
    /\ dest[1].data # dest_before[1].data
(***************************************************************************)
(* Writer::WriteSlow(string_view).                                         *)
(***************************************************************************)
\* The bytes a Writer holds, in the order written: those behind its
\* destination, then those in its buffer.
WriterHeld(w) == w.dest \o w.buffer

\* C34: a Write(src) with src.size() > available(), which is WriteSlow(src),
\* that returns true has put exactly the bytes of src, in order, behind the
\* bytes the writer held: pos() has grown by src.size(), the writer is
\* healthy and start <= cursor <= limit.  One that returns false has put
\* there a strict prefix of src at most: what the writer holds is a prefix
\* of what it held followed by src, and not the whole; nothing that had
\* reached the destination is lost, and the writer is not healthy.
C34_WriteSlowInOrder ==
    [][LET src == writer_last'.arg
       IN (writer_last'.op = "Write" /\ Len(src) > WriterAvailable(writer))
          => /\ writer_last'.ret
                => /\ WriterHeld(writer') = WriterHeld(writer) \o src
                   /\ WriterPos(writer') = WriterPos(writer) + Len(src)
                   /\ writer'.start_ <= writer'.cursor_
                   /\ writer'.cursor_ <= writer'.limit_
                   /\ healthy(writer'.status_)
             /\ ~writer_last'.ret
                => /\ IsPrefix(WriterHeld(writer'), WriterHeld(writer) \o src)
                   /\ Len(WriterHeld(writer')) < Len(WriterHeld(writer)) + Len(src)
                   /\ IsPrefix(writer.dest, writer'.dest)
                   /\ ~healthy(writer'.status_)]_vars

\* C34 witness: two bytes were written to a writer with one byte in its
\* buffer and room for one more: the first went into that buffer, the
\* second into the buffer that PushSlow() made.
C34_Witness ==
    /\ writer_last.op = "Write"
    /\ writer_last.arg = <<2, 3>>
    /\ writer_last.ret
    /\ writer.dest = <<1, 2>>
    /\ writer.buffer = <<3>>
    /\ writer.start_pos_ = 2
(***************************************************************************)
(* Writer::WriteSlow(string_view), pass by pass through its loop.          *)
(***************************************************************************)
\* The strings written slowly: up to MaxPos bytes, all different.
SlowSrcSet == {[i \in 1..n |-> i] : n \in 1..MaxPos}

\* A seeded fault: the pass without src.remove_prefix(available_length).
WriteSlowLoop_KeepsPrefix(pc, w, src, size, ok) ==
    LET available_length == WriterAvailable(w)
        w1 == IF pc = "do"
              THEN [w EXCEPT !.buffer = @ \o SubSeq(src, 1, available_length),
                             !.cursor_ = w.limit_]
              ELSE w
        p == PushSlow(w1, size, ok)
    IN IF ~p.ret THEN [pc |-> "returned", w |-> p.w, src |-> src, ret |-> FALSE]
       ELSE IF Len(src) > WriterAvailable(p.w)
       THEN [pc |-> "do", w |-> p.w, src |-> src, ret |-> TRUE]
       ELSE [pc |-> "returned",
             w |-> [p.w EXCEPT !.buffer = @ \o src, !.cursor_ = @ + Len(src)],
             src |-> <<>>, ret |-> TRUE]

\* One pass through the loop of WriteSlow(), from the do (pc = "do") or from
\* the label skip_copy: the bytes that fit copied and taken off src, then
\* PushSlow(), which makes a buffer of size bytes when ok; then the loop
\* left when PushSlow() failed, or with the rest of src copied when it fits.
WriteSlowLoop(pc, w, src, size, ok) ==
    LET available_length == WriterAvailable(w)
        w1 == IF pc = "do"
              THEN [w EXCEPT !.buffer = @ \o SubSeq(src, 1, available_length),
                             !.cursor_ = w.limit_]
              ELSE w
        src1 == IF pc = "do" THEN SubSeq(src, available_length + 1, Len(src)) ELSE src
        p == PushSlow(w1, size, ok)
    IN IF ~p.ret THEN [pc |-> "returned", w |-> p.w, src |-> src1, ret |-> FALSE]
       ELSE IF Len(src1) > WriterAvailable(p.w)
       THEN [pc |-> "do", w |-> p.w, src |-> src1, ret |-> TRUE]
       ELSE [pc |-> "returned",
             w |-> [p.w EXCEPT !.buffer = @ \o src1, !.cursor_ = @ + Len(src1)],
             src |-> <<>>, ret |-> TRUE]

InWriteSlow == write_slow.pc \in {"do", "skip_copy"}

WriteSlowFrame ==
    UNCHANGED <<writer_last, encoderVars, decoderVars, backwardWriterVars, transpose,
                transposed, options, threadVars, objectsVars, reset_from>>

\* WriteSlow(src) is called; precondition: src.size() > available().  It
\* goes to skip_copy when available() == 0.
CallWriteSlow ==
    /\ ~InWriteSlow
    /\ \E src \in SlowSrcSet :
          /\ Len(src) > WriterAvailable(writer)
          /\ Len(writer.dest) + Len(writer.buffer) + Len(src) <= MaxPos
          /\ write_slow' = [pc |-> IF WriterAvailable(writer) = 0 THEN "skip_copy"
                                   ELSE "do",
                            src |-> src, size |-> Len(src), pushes |-> 0, ret |-> TRUE]
    /\ UNCHANGED writer
    /\ WriteSlowFrame

\* The call makes one pass through its loop.
WriteSlowPass ==
    /\ InWriteSlow
    /\ \E size \in BufferSizes, ok \in BOOLEAN :
          LET pass == WriteSlowLoop(write_slow.pc, writer, write_slow.src, size, ok)
          IN /\ writer' = pass.w
             /\ write_slow' = [write_slow EXCEPT !.pc = pass.pc, !.src = pass.src,
                                                 !.pushes = @ + 1, !.ret = pass.ret]
    /\ WriteSlowFrame

\* A Writer used by one thread: no other call while WriteSlow() runs.
NextWriteSlow ==
    \/ CallWriteSlow
    \/ WriteSlowPass
    \/ ~InWriteSlow /\ CallWriterPush
    \/ ~InWriteSlow /\ CallWriterFailOverflow

SpecWriteSlow == InitWriters /\ [][NextWriteSlow]_vars /\ WF_vars(WriteSlowPass)

\* C35: WriteSlow() returns.  PushSlow() making a buffer of at least one
\* byte whenever it returns true, a pass that begins at the do returns
\* false or leaves fewer bytes of src to write, and the PushSlow() calls are
\* never more than the bytes of src.
C35_WriteSlowTerminates ==
    /\ [](write_slow.pushes <= write_slow.size)
    /\ [][(write_slow.pc = "do" /\ write_slow'.pushes = write_slow.pushes + 1)
          => \/ write_slow'.pc = "returned" /\ ~write_slow'.ret
             \/ Len(write_slow'.src) < Len(write_slow.src)]_vars
    /\ InWriteSlow ~> (write_slow.pc = "returned")

\* C35 witness: three bytes were written with three PushSlow() calls, the
\* first from skip_copy, each making a buffer of one byte.
C35_Witness ==
    /\ write_slow.pc = "returned"
    /\ write_slow.ret
    /\ write_slow.size = 3
    /\ write_slow.pushes = 3
    /\ writer.dest = <<1, 2>>
    /\ writer.buffer = <<3>>
====
